---- MODULE Spec2Model ----
(***************************************************************************)
(* Verification model of icosa_truncations.cpp: the class I icosahedron    *)
(* truncation solver (symmetry transforms, oblique spherical triangle      *)
(* solver, vertex generator and the iterative constraint search).          *)
(***************************************************************************)
EXTENDS Integers, Sequences, FiniteSets, TLC

(***************************************************************************)
(* STATE                                                                   *)
(***************************************************************************)
VARIABLES
    \* build_loop
    fn,        \* BUILD *buildFunction: the residual function driven by the loop
    seed,      \* *seed, the parameter the loop perturbs
    prob,      \* the loop structure: delta, tolerance, loop, lastdiff, dir
    diff,      \* the residual returned by the last call of buildFunction
    seed0,     \* the value of *seed when build_loop was entered
    ret,       \* the value build_loop returned (meaningful once blpc = "done")
    note,      \* TRUE once the "inner_loop_exceeded max" line is printed
    blpc,      \* position in build_loop: "idle", "call", "test", "done"
    \* the PROGRAM structure of main
    gpc,       \* main's position in its start-up sequence
    face,      \* pgm.face: tm, tmt, m0, mt0, m1, mt1, m2, mt2
    subface,   \* pgm.subface[aSrc].sub[aDst].m
    amade,     \* per table entry, the factors build_a_transforms multiplied
    pgm_v,     \* pgm.v
    call,      \* the last create_vertex_* call and how many were made
    probe,     \* a point carried from region to region by subface_exchange
    ref,       \* pgm.ref, the reference (LCD) triangle
    \* sph_tri_bcC
    sph_tri,   \* the SPH_TRI being solved, with the solver's locals
    tpc,       \* "in" before sph_tri_bcC runs on it, "out" after
    \* functions run on their own
    conv,      \* gut_cartesian_to_spherical: the point p, *s, and "in"/"out"
    mm,        \* mtx_multiply_matrix: the arrays a, b, c, and "in"/"out"
    twin,      \* one vertex of two runs that differ in what main's never
               \* initialised PROGRAM held, and the lines printed for it
    \* main
    mpc,       \* the step of main's run that comes next
    log,       \* the steps main has completed, in order
    lastout,   \* what the output function just called did
    vtag,      \* per entry of pgm.v, the frequency that last stored into it
    vfrom,     \* per entry of pgm.v, the function that last stored into it
    unopened   \* TRUE while no output file has been opened in this run

loopVars == <<fn, seed, seed0, prob, diff, ret, note, blpc>>

geomVars == <<gpc, face, subface, amade, pgm_v, call, probe, ref>>

triVars == <<sph_tri, tpc>>

unitVars == <<conv, mm, twin>>

mainVars == <<mpc, log, lastout, vtag, vfrom, unopened>>

(***************************************************************************)
(* PART 1.  Exact binary fractions, the numbers of build_loop.             *)
(*                                                                         *)
(* build_loop only adds, subtracts, negates, halves and compares.  Its     *)
(* doubles are modelled as exact binary fractions of unbounded precision:  *)
(*      value(x) = x.i + SUM { 2^-k : k \in x.f }                          *)
(* counted in units of DTR(0.5) radians, so that inc is exactly 1.         *)
(***************************************************************************)
Dy(i, f) == [i |-> i, f |-> f]

DyInt(n) == Dy(n, {})

SetMax(S) == CHOOSE m \in S : \A k \in S : k <= m

SetMin(S) == CHOOSE m \in S : \A k \in S : m <= k

\* the carry out of the binary places below place k of x + y: some place j
\* below k holds a one in both, and every place between holds a one in one
CarryInto(X, Y, k, m) ==
    \E j \in (k + 1)..m :
        /\ j \in X /\ j \in Y
        /\ \A n \in (k + 1)..(j - 1) : n \in X \/ n \in Y

DyAdd(x, y) ==
    LET m == IF x.f \cup y.f = {} THEN 0 ELSE SetMax(x.f \cup y.f)
    IN  Dy(x.i + y.i + (IF CarryInto(x.f, y.f, 0, m) THEN 1 ELSE 0),
           {k \in 1..m : ((k \in x.f) # (k \in y.f))
                              # CarryInto(x.f, y.f, k, m)})

\* -(i + F) = (-i - 1) + (1 - F) for F # 0
DyNeg(x) ==
    IF x.f = {} THEN Dy(0 - x.i, {})
    ELSE LET m == SetMax(x.f)
         IN  Dy(0 - x.i - 1, {k \in 1..m : k \notin x.f} \cup {m})

DySub(x, y) == DyAdd(x, DyNeg(y))

DyHalf(x) ==
    Dy(x.i \div 2, {k + 1 : k \in x.f} \cup (IF x.i % 2 = 1 THEN {1} ELSE {}))

DyLess(x, y) ==
    \/ x.i < y.i
    \/ /\ x.i = y.i
       /\ LET D == (x.f \ y.f) \cup (y.f \ x.f)
          IN  D # {} /\ SetMin(D) \in y.f

DyLeq(x, y) == x = y \/ DyLess(x, y)

DyZero == DyInt(0)

DyIsNeg(x) == x.i < 0

DyIsPos(x) == x.i > 0 \/ (x.i = 0 /\ x.f # {})

\* fabs()
DyAbs(x) == IF DyIsNeg(x) THEN DyNeg(x) ELSE x

(***************************************************************************)
(* PART 2.  build_loop, the iterative constraint search.                   *)
(***************************************************************************)
\* max = 200; // avoid infinite loop
max == 200

\* inc = DTR(0.5): the unit of the binary fractions
inc == DyInt(1)

\* 1.2345 radians in units of DTR(0.5) = 141.46327961780025...,
\* cut after 59 binary places
Target12345 ==
    Dy(141, {2, 3, 4, 6, 7, 9, 12, 13, 16, 18, 19, 20, 21, 22, 23, 27, 28,
             30, 31, 32, 34, 36, 37, 39, 41, 42, 43, 44, 45, 46, 47, 48, 53,
             54, 57, 58, 59})

\* 0.00000000001 radians (the r_zero of every call site) in units of
\* DTR(0.5) = 1.1459155902616464e-09, cut after 59 binary places
Tol1e11 ==
    Dy(0, {30, 33, 34, 35, 37, 39, 40, 41, 42, 43, 44, 47, 49, 52, 58, 59})

\* The residual functions the loop is driven with.  A BUILD function is a
\* function of *seed; the family covers a rising and a falling residual with
\* a root at t, a constant residual and a residual with no root.
Residual(f, x) ==
    CASE f.kind = "rising"  -> DySub(x, f.t)
      [] f.kind = "falling" -> DySub(f.t, x)
      [] f.kind = "flat"    -> f.t
      [] f.kind = "valley"  -> DyAdd(DyAbs(DySub(x, f.t)), DyInt(1))

\* a variant of the entry below that starts with a downward step
BuildLoopEntryStepsDown(r_zero) ==
    [delta |-> DyNeg(inc), tolerance |-> r_zero, loop |-> 0,
     lastdiff |-> DyZero, dir |-> 1]

\* prob.delta = inc; prob.tolerance = zero; prob.loop = 0;
\* prob.lastdiff = 0; prob.dir = 1;
BuildLoopEntry(r_zero) ==
    [delta |-> inc, tolerance |-> r_zero, loop |-> 0,
     lastdiff |-> DyZero, dir |-> 1]

\* a variant of the reversal below that leaves *seed where it is
StepReverseInPlace(s, p) == [seed |-> s, delta |-> DyNeg(p.delta)]

\* *seed -= prob.delta; prob.delta *= -1; *seed += prob.delta;
StepReverse(s, p) ==
    LET d == DyNeg(p.delta)
    IN  [seed |-> DyAdd(DySub(s, p.delta), d), delta |-> d]

\* a variant of the step below that turns round without halving
StepTurnsWithoutHalving(s, p) ==
    [seed |-> DyAdd(DySub(s, p.delta), DyNeg(p.delta)), delta |-> DyNeg(p.delta)]

\* *seed -= prob.delta; prob.delta /= -2.0; *seed += prob.delta;
StepHalve(s, p) ==
    LET d == DyNeg(DyHalf(p.delta))
    IN  [seed |-> DyAdd(DySub(s, p.delta), d), delta |-> d]

\* a variant of the step below that doubles the step size
StepKeepDoubling(s, p) ==
    [seed |-> DyAdd(s, p.delta), delta |-> DyAdd(p.delta, p.delta)]

\* *seed += prob.delta;
StepKeep(s, p) == [seed |-> DyAdd(s, p.delta), delta |-> p.delta]

StepNone(s, p) == [seed |-> s, delta |-> p.delta]

\* the if/else ladder of lines 789-840: the new *seed and prob.delta
BuildLoopUpdate(s, p, d) ==
    IF DyIsPos(d)
    THEN IF DyIsPos(p.lastdiff)
         THEN IF DyLess(d, p.lastdiff) THEN StepKeep(s, p)
              ELSE StepReverse(s, p)
         ELSE IF DyIsNeg(p.lastdiff) THEN StepHalve(s, p)
         ELSE StepKeep(s, p)
    ELSE IF DyIsNeg(d)
    THEN IF DyIsNeg(p.lastdiff)
         THEN IF DyLess(p.lastdiff, d) THEN StepKeep(s, p)
              ELSE StepReverse(s, p)
         ELSE IF DyIsPos(p.lastdiff) THEN StepHalve(s, p)
         ELSE StepKeep(s, p)
    ELSE StepNone(s, p)

\* a variant of the cap test below that lets one more call through
CapReachedOneLate(p) == p.loop = max + 1

\* if (prob.loop == max)
CapReached(p) == p.loop = max

\* if (fabs(diff) <= prob.tolerance)
WithinTolerance(p, d) == DyLeq(DyAbs(d), p.tolerance)

\* ++prob.loop; diff = buildFunction(seed, var);
BuildLoopCall ==
    /\ blpc = "call"
    /\ prob' = [prob EXCEPT !.loop = @ + 1]
    /\ diff' = Residual(fn, seed)
    /\ blpc' = "test"
    /\ UNCHANGED <<fn, seed, seed0, ret, note, geomVars, triVars, unitVars, mainVars>>

\* printf("NOTE:inner_loop_exceeded max, ..."); return -1.0;
BuildLoopCap ==
    /\ blpc = "test"
    /\ CapReached(prob)
    /\ note' = TRUE
    /\ ret' = DyInt(-1)
    /\ blpc' = "done"
    /\ UNCHANGED <<fn, seed, seed0, prob, diff, geomVars, triVars, unitVars, mainVars>>

\* a variant of the return below that runs the update ladder once more
\* before it returns
BuildLoopConvergedAfterUpdate ==
    /\ blpc = "test"
    /\ ~CapReached(prob)
    /\ WithinTolerance(prob, diff)
    /\ seed' = BuildLoopUpdate(seed, prob, diff).seed
    /\ ret' = DyAbs(diff)
    /\ blpc' = "done"
    /\ UNCHANGED <<fn, seed0, prob, diff, note, geomVars, triVars, unitVars, mainVars>>

\* break; ... return fabs(diff);
BuildLoopConverged ==
    /\ blpc = "test"
    /\ ~CapReached(prob)
    /\ WithinTolerance(prob, diff)
    /\ ret' = DyAbs(diff)
    /\ blpc' = "done"
    /\ UNCHANGED <<fn, seed, seed0, prob, diff, note, geomVars, triVars, unitVars, mainVars>>

\* the update ladder, then prob.lastdiff = diff; and the next turn
BuildLoopStep ==
    /\ blpc = "test"
    /\ ~CapReached(prob)
    /\ ~WithinTolerance(prob, diff)
    /\ LET u == BuildLoopUpdate(seed, prob, diff)
       IN  /\ seed' = u.seed
           /\ prob' = [prob EXCEPT !.delta = u.delta, !.lastdiff = diff]
    /\ blpc' = "call"
    /\ UNCHANGED <<fn, seed0, diff, ret, note, geomVars, triVars, unitVars, mainVars>>

(***************************************************************************)
(* PART 3.  The doubles of the geometry code.                              *)
(*                                                                         *)
(* A double is modelled as a sign and a magnitude counted in units of      *)
(* 1/Scale (four decimal places), or an infinity, or a NaN.  The sign is   *)
(* kept on zero, as IEEE 754 keeps it, every operation rounds to the       *)
(* nearest unit, and a magnitude above MaxMag/Scale overflows to infinity. *)
(* A double of memory that was never written is Uninit, and reading it     *)
(* yields whatever the memory held (see Load).                             *)
(***************************************************************************)
Scale == 10 ^ 4

ScaleDigits == 2 + 2

MaxMag == 10 ^ 8

F(s, m) == [c |-> "fin", s |-> s, m |-> m]

NaN == [c |-> "nan", s |-> 1, m |-> 0]

Inf(s) == [c |-> "inf", s |-> s, m |-> 0]

Uninit == [c |-> "uninit", s |-> 1, m |-> 0]

\* the double nearest to n / Scale
Num(n) == IF n < 0 THEN F(-1, 0 - n) ELSE F(1, n)

\* the double of a whole number
Whole(n) == Num(n * Scale)

Zero == Num(0)

One == Whole(1)

IsNaN(a) == a.c = "nan"

IsFin(a) == a.c = "fin"

IsInf(a) == a.c = "inf"

IsZero(a) == a.c = "fin" /\ a.m = 0

Norm(s, m) == IF m > MaxMag THEN Inf(s) ELSE F(s, m)

\* position of a non-NaN double on the extended real line
Key(a) == IF a.c = "inf" THEN a.s * (MaxMag + 1) ELSE a.s * a.m

FLess(a, b) == ~IsNaN(a) /\ ~IsNaN(b) /\ Key(a) < Key(b)

FLeq(a, b) == ~IsNaN(a) /\ ~IsNaN(b) /\ Key(a) <= Key(b)

FEq(a, b) == ~IsNaN(a) /\ ~IsNaN(b) /\ Key(a) = Key(b)

FNeg(a) == IF IsNaN(a) THEN NaN ELSE [a EXCEPT !.s = 0 - a.s]

\* fabs()
FAbs(a) == IF IsNaN(a) THEN NaN ELSE [a EXCEPT !.s = 1]

FAdd(a, b) ==
    IF IsNaN(a) \/ IsNaN(b) THEN NaN
    ELSE IF IsInf(a) THEN (IF IsInf(b) /\ b.s # a.s THEN NaN ELSE a)
    ELSE IF IsInf(b) THEN b
    ELSE LET n == a.s * a.m + b.s * b.m
         IN  IF n = 0 THEN F(IF a.s = -1 /\ b.s = -1 THEN -1 ELSE 1, 0)
             ELSE IF n < 0 THEN Norm(-1, 0 - n)
             ELSE Norm(1, n)

FSub(a, b) == FAdd(a, FNeg(b))

\* round(a * b / Scale) on magnitudes, without leaving 32 bits
MulMag(a, b) ==
    LET qa == a \div Scale
        ra == a % Scale
        qb == b \div Scale
        rb == b % Scale
    IN  IF qa > 0 /\ b > MaxMag \div qa THEN MaxMag + 1
        ELSE qa * b + ra * qb + (ra * rb + Scale \div 2) \div Scale

FMul(a, b) ==
    IF IsNaN(a) \/ IsNaN(b) THEN NaN
    ELSE IF IsInf(a) \/ IsInf(b)
         THEN (IF IsZero(a) \/ IsZero(b) THEN NaN ELSE Inf(a.s * b.s))
    ELSE Norm(a.s * b.s, MulMag(a.m, b.m))

\* the n decimal places of r / b after the point (r < b), rounded
RECURSIVE Places(_, _, _, _)
Places(r, b, n, acc) ==
    IF n = 0 THEN acc + (IF 2 * r >= b THEN 1 ELSE 0)
    ELSE Places((r * 10) % b, b, n - 1, acc * 10 + (r * 10) \div b)

\* round(a * Scale / b) on magnitudes, b > 0
DivMag(a, b) ==
    IF a \div b > MaxMag \div Scale THEN MaxMag + 1
    ELSE (a \div b) * Scale + Places(a % b, b, ScaleDigits, 0)

FDiv(a, b) ==
    IF IsNaN(a) \/ IsNaN(b) THEN NaN
    ELSE IF IsInf(a) THEN (IF IsInf(b) THEN NaN ELSE Inf(a.s * b.s))
    ELSE IF IsInf(b) THEN F(a.s * b.s, 0)
    ELSE IF b.m = 0 THEN (IF a.m = 0 THEN NaN ELSE Inf(a.s * b.s))
    ELSE Norm(a.s * b.s, DivMag(a.m, b.m))

\* floor(sqrt(n)) for 0 <= n < 2^31, at most 46340: first the multiple of
\* 216 below the root, then the root among the 216 numbers from there
ISqrtFrom(n, h) ==
    CHOOSE r \in h..(IF h + 215 > 46340 THEN 46340 ELSE h + 215) :
        r * r <= n /\ (r = 46340 \/ (r + 1) * (r + 1) > n)

ISqrt(n) ==
    ISqrtFrom(n, 216 * (CHOOSE h \in 0..214 :
                            /\ (216 * h) * (216 * h) <= n
                            /\ (h = 214 \/ (216 * (h + 1)) * (216 * (h + 1)) > n)))

\* sqrt()
FSqrt(a) ==
    IF IsNaN(a) THEN NaN
    ELSE IF IsZero(a) THEN a
    ELSE IF a.s = -1 THEN NaN
    ELSE IF IsInf(a) THEN a
    ELSE IF a.m <= 2 * 10 ^ 5
         THEN LET r == ISqrt(a.m * Scale)
              IN  F(1, IF (r + 1) * (r + 1) - a.m * Scale <= a.m * Scale - r * r
                       THEN r + 1 ELSE r)
    ELSE F(1, ISqrt(a.m) * ISqrt(Scale))

\* #define DTR( degree ) ( ( degree ) * 0.01745329251994329576923690768489 )
\* the factor to seven decimal places
DTRFactor == 174533

DTR(degree) ==
    IF ~IsFin(degree) THEN degree
    ELSE LET A == (degree.m \div Scale) * DTRFactor
             B == (degree.m % Scale) * DTRFactor
         IN  F(degree.s,
               A \div 1000 + (((A % 1000) * Scale + B) + 5 * 10 ^ 6) \div 10 ^ 7)

\* the magnitudes of pi and pi/2 the library works with
PiMag == DTR(Whole(180)).m

HalfPiMag == DTR(Whole(90)).m

\* sin(y) for 0 <= y <= pi/2 by its Taylor polynomial to y^9
SinPoly(y) ==
    LET y2 == MulMag(y, y)
        t4 == Scale - (y2 + 36) \div 72
        t3 == Scale - (MulMag(y2, t4) + 21) \div 42
        t2 == Scale - (MulMag(y2, t3) + 10) \div 20
        t1 == Scale - (MulMag(y2, t2) + 3) \div 6
    IN  MulMag(y, t1)

\* sin of a magnitude: [s |-> sign, m |-> magnitude]
SinMag(m) ==
    LET r == m % (2 * PiMag)
        h == IF r >= PiMag THEN r - PiMag ELSE r
        y == IF h > HalfPiMag THEN PiMag - h ELSE h
    IN  [s |-> IF r >= PiMag THEN -1 ELSE 1, m |-> SinPoly(y)]

\* sin()
FSin(a) ==
    IF ~IsFin(a) THEN NaN
    ELSE IF a.m > MaxMag \div 10 THEN NaN
    ELSE LET r == SinMag(a.m) IN F(a.s * r.s, r.m)

\* cos()
FCos(a) ==
    IF ~IsFin(a) THEN NaN
    ELSE IF a.m > MaxMag \div 10 THEN NaN
    ELSE LET r == SinMag(a.m + HalfPiMag) IN F(r.s, r.m)

\* tan()
FTan(a_) ==
    CHOOSE rv \in {(
        FDiv(FSin(a), FCos(a))
        ) : a \in {a_}} : TRUE

\* round(a / b) for a >= 0, b > 0
RoundDiv(a, b) == (a + b \div 2) \div b

\* atan(x / Scale) for 0 <= x <= Scale by the odd polynomial to x^9 of
\* Abramowitz and Stegun 4.4.47, coefficients to five decimal places, by
\* Horner's rule from the innermost term t4 outwards
AtanPoly(x) ==
    CHOOSE rv \in
        {RoundDiv(x * t1, 10 ^ 5) :
            t1 \in {99987 - RoundDiv(MulMag(x, x) * t2, Scale) :
            t2 \in {33030 - RoundDiv(MulMag(x, x) * t3, Scale) :
            t3 \in {18014 - RoundDiv(MulMag(x, x) * t4, Scale) :
            t4 \in {8513 - RoundDiv(MulMag(x, x) * 2084, Scale)}}}}} : TRUE

\* atan() of a magnitude
AtanMag(m) ==
    IF m <= Scale THEN AtanPoly(m) ELSE HalfPiMag - AtanPoly(DivMag(Scale, m))

\* sqrt(n) to the nearest integer
RoundSqrt(n, r) == IF (r + 1) * (r + 1) - n <= n - r * r THEN r + 1 ELSE r

\* atan(m / c) for the two legs m, c of a right triangle (c > 0)
AtanOfLegs(m, c) ==
    IF m <= c THEN AtanPoly(DivMag(m, c)) ELSE HalfPiMag - AtanPoly(DivMag(c, m))

\* asin() of a magnitude 0 <= m <= Scale: atan(m / sqrt(1 - m^2))
AsinMag(m) ==
    IF m = Scale THEN HalfPiMag
    ELSE AtanOfLegs(m, RoundSqrt(Scale * Scale - m * m,
                                 ISqrt(Scale * Scale - m * m)))

\* asin(): a domain error (NaN) outside [-1, 1]
FAsin(a) ==
    IF IsNaN(a) THEN NaN
    ELSE IF IsInf(a) \/ a.m > Scale THEN NaN
    ELSE F(a.s, AsinMag(a.m))

\* acos(): a domain error (NaN) outside [-1, 1]
FAcos(a) ==
    IF IsNaN(a) THEN NaN
    ELSE IF IsInf(a) \/ a.m > Scale THEN NaN
    ELSE Num(HalfPiMag - a.s * AsinMag(a.m))

\* atan()
FAtan(a) ==
    IF IsNaN(a) THEN NaN
    ELSE IF IsInf(a) THEN F(a.s, HalfPiMag)
    ELSE F(a.s, AtanMag(a.m))

\* a read of a double: memory never written yields the garbage g it held
Load(x, g) == IF x.c = "uninit" THEN g ELSE x

(***************************************************************************)
(* PART 4.  Vectors, matrices and the symmetry transform builder.          *)
(*                                                                         *)
(* A GUT_POINT is [x, y, z, w], a GUT_VECTOR [i, j, k, l] and a matrix a   *)
(* function on 0..15, row-major as in the source.                          *)
(***************************************************************************)
\* an array of doubles or of structures holds values: its entries are
\* computed when it is written, not when it is read
Array(f) == f @@ <<>>

\* A C call evaluates its arguments before the body of the function runs.
\* The operators below that model a function do the same: each parameter p_
\* is bound to its value p, and rv is the value the body then has.

Point(x, y, z, w) == [x |-> x, y |-> y, z |-> z, w |-> w]

Vector(i, j, k, l) == [i |-> i, j |-> j, k |-> k, l |-> l]

\* (GUT_VECTOR*)&p : the same four doubles read as a vector
AsVector(p) == Vector(p.x, p.y, p.z, p.w)

\* (GUT_POINT*)&v
AsPoint(v) == Point(v.i, v.j, v.k, v.l)

UninitPoint == Point(Uninit, Uninit, Uninit, Uninit)

Sum4(a, b, c, d) == FAdd(FAdd(FAdd(a, b), c), d)

\* v->i = b->x - a->x; ... (l is not written)
gut_vector(a_, b_) ==
    CHOOSE rv \in {(
        Vector(FSub(b.x, a.x), FSub(b.y, a.y), FSub(b.z, a.z), Uninit)
        ) : a \in {a_}, b \in {b_}} : TRUE

\* v->i /= distance; v->j /= distance; v->k /= distance;
DivideBy(v_, distance_) ==
    CHOOSE rv \in {(
        Vector(FDiv(v.i, distance), FDiv(v.j, distance), FDiv(v.k, distance), v.l)
        ) : v \in {v_}, distance \in {distance_}} : TRUE

gut_normalize_vector(v_) ==
    CHOOSE rv \in {(
        DivideBy(v, FSqrt(FAdd(FAdd(FMul(v.i, v.i), FMul(v.j, v.j)),
                               FMul(v.k, v.k))))
        ) : v \in {v_}} : TRUE

gut_cross_product(a_, b_) ==
    CHOOSE rv \in {(
        Vector(FSub(FMul(a.j, b.k), FMul(a.k, b.j)),
               FSub(FMul(a.k, b.i), FMul(a.i, b.k)),
               FSub(FMul(a.i, b.j), FMul(a.j, b.i)),
               Uninit)
        ) : a \in {a_}, b \in {b_}} : TRUE

mtx_set_unity ==
    [n \in 0..15 |-> IF n \in {0, 5, 10, 15} THEN One ELSE Zero]

\* a variant of the scale matrix below with a one in its fourth column
mtx_create_scale_matrix_sheared(x, y, z) ==
    [mtx_set_unity EXCEPT ![0] = x, ![5] = y, ![10] = z, ![7] = One]

mtx_create_scale_matrix(x, y, z) ==
    [mtx_set_unity EXCEPT ![0] = x, ![5] = y, ![10] = z]

mtx_transpose_matrix(m_) ==
    CHOOSE rv \in {(
        Array([n \in 0..15 |-> m[(n % 4) * 4 + n \div 4]])
        ) : m \in {m_}} : TRUE

\* one row of the product as the source writes it: c[4r+k] from row ra of
\* a and column k of b
RowTimes(a, b, ra, k) ==
    Sum4(FMul(a[4 * ra], b[k]), FMul(a[4 * ra + 1], b[4 + k]),
         FMul(a[4 * ra + 2], b[8 + k]), FMul(a[4 * ra + 3], b[12 + k]))

\* c[11] is computed from a[4..7], the second row of a (line 307); every
\* other entry from its own row
mtx_multiply_matrix(a_, b_) ==
    CHOOSE rv \in {(
        Array([n \in 0..15 |->
                  IF n = 11 THEN RowTimes(a, b, 1, 3)
                  ELSE RowTimes(a, b, n \div 4, n % 4)])
        ) : a \in {a_}, b \in {b_}} : TRUE

\* the single-vector body of mtx_vec4_multiply: b = a * m
Vec4Times(a_, m_) ==
    CHOOSE rv \in {(
        Vector(Sum4(FMul(a.i, m[0]), FMul(a.j, m[4]), FMul(a.k, m[8]),
                    FMul(a.l, m[12])),
               Sum4(FMul(a.i, m[1]), FMul(a.j, m[5]), FMul(a.k, m[9]),
                    FMul(a.l, m[13])),
               Sum4(FMul(a.i, m[2]), FMul(a.j, m[6]), FMul(a.k, m[10]),
                    FMul(a.l, m[14])),
               Sum4(FMul(a.i, m[3]), FMul(a.j, m[7]), FMul(a.k, m[11]),
                    FMul(a.l, m[15])))
        ) : a \in {a_}, m \in {m_}} : TRUE

\* mtx_vec4_multiply(length, a, b, m) on an array a indexed from 0; the
\* result is the array b (left as it was, bOld, when length < 1)
mtx_vec4_multiply(length_, a_, bOld_, m_) ==
    CHOOSE rv \in {(
        IF length < 1 THEN bOld
        ELSE Array([n \in DOMAIN bOld |->
                       IF n < length THEN Vec4Times(a[n], m) ELSE bOld[n]])
        ) : length \in {length_}, a \in {a_}, bOld \in {bOld_}, m \in {m_}} : TRUE

\* m[0] = x->i, m[1] = y->i, m[2] = z->i, ... ; mt is the transpose
build_rotation_matrix(x_, y_, z_) ==
    CHOOSE rv \in {(
        LET m == Array([n \in 0..15 |->
                    CASE n = 0 -> x.i [] n = 1 -> y.i [] n = 2 -> z.i
                      [] n = 4 -> x.j [] n = 5 -> y.j [] n = 6 -> z.j
                      [] n = 8 -> x.k [] n = 9 -> y.k [] n = 10 -> z.k
                      [] n = 15 -> One
                      [] OTHER -> Zero])
        IN  [m |-> m, mt |-> mtx_transpose_matrix(m)]
        ) : x \in {x_}, y \in {y_}, z \in {z_}} : TRUE

\* the frame of gut_vector/normalize/cross calls shared by the builders:
\* x from p2 to p0, y from p2 to p1, z = x X y, y = z X x
FrameFromXZ(x_, z_) ==
    CHOOSE rv \in {(
        build_rotation_matrix(x, gut_normalize_vector(gut_cross_product(z, x)), z)
        ) : x \in {x_}, z \in {z_}} : TRUE

FrameFromXY(x_, y_) ==
    CHOOSE rv \in {(
        FrameFromXZ(x, gut_normalize_vector(gut_cross_product(x, y)))
        ) : x \in {x_}, y \in {y_}} : TRUE

MrMrt(r) == [mr |-> r.m, mrt |-> r.mt]

rotation_matrix_from_triangle(p0_, p1_, p2_) ==
    CHOOSE rv \in {(
        MrMrt(FrameFromXY(gut_normalize_vector(gut_vector(p2, p0)),
                          gut_normalize_vector(gut_vector(p2, p1))))
        ) : p0 \in {p0_}, p1 \in {p1_}, p2 \in {p2_}} : TRUE

\* gut_spherical_to_cartesian: x, y, z are written, w is left as it was
gut_spherical_to_cartesian(sc_, p_) ==
    CHOOSE rv \in {(
        [p EXCEPT
            !.x = FMul(FMul(sc.radius, FSin(sc.inclination)), FCos(sc.azimuth)),
            !.y = FMul(FMul(sc.radius, FSin(sc.inclination)), FSin(sc.azimuth)),
            !.z = FMul(sc.radius, FCos(sc.inclination))]
        ) : sc \in {sc_}, p \in {p_}} : TRUE

SphericalCoord(r, az, inc_) ==
    [radius |-> r, azimuth |-> az, inclination |-> inc_]

UninitSC == SphericalCoord(Uninit, Uninit, Uninit)

\* build_face_transforms: the corners of the equatorial face and its frame
TmTmt(r) == [tm |-> r.mr, tmt |-> r.mrt]

build_face_transforms ==
    TmTmt(rotation_matrix_from_triangle(
        gut_spherical_to_cartesian(
            SphericalCoord(One, DTR(Whole(36)),
                FSub(DTR(Whole(180)), FAtan(Whole(2)))), UninitPoint),
        gut_spherical_to_cartesian(
            SphericalCoord(One, Zero, FAtan(Whole(2))), UninitPoint),
        gut_spherical_to_cartesian(
            SphericalCoord(One, DTR(Whole(-36)),
                FSub(DTR(Whole(180)), FAtan(Whole(2)))), UninitPoint)))

\* the corners of the equilateral triangle of build_subface_transforms
SubfaceCorner(n) ==
    CASE n = 0 -> Point(Num(5000), FNeg(FDiv(FSqrt(Whole(3)), Whole(6))),
                        Zero, Uninit)
      [] n = 1 -> Point(Zero, FDiv(FSqrt(Whole(3)), Whole(3)), Zero, Uninit)
      [] n = 2 -> Point(Num(-5000), FNeg(FDiv(FSqrt(Whole(3)), Whole(6))),
                        Zero, Uninit)

\* z rotation for 0 degrees: the last normalize is applied to vz, not vy
\* (line 621)
Frame0FromXZ(vx_, vz_) ==
    CHOOSE rv \in {(
        build_rotation_matrix(vx, gut_cross_product(vz, vx),
                              gut_normalize_vector(vz))
        ) : vx \in {vx_}, vz \in {vz_}} : TRUE

Frame0FromXY(vx_, vy_) ==
    CHOOSE rv \in {(
        Frame0FromXZ(vx, gut_normalize_vector(gut_cross_product(vx, vy)))
        ) : vx \in {vx_}, vy \in {vy_}} : TRUE

SubfaceFrame0 ==
    Frame0FromXY(
        gut_normalize_vector(gut_vector(SubfaceCorner(2), SubfaceCorner(0))),
        gut_normalize_vector(gut_vector(SubfaceCorner(2), SubfaceCorner(1))))

\* z rotations for 120 and 240 degrees: corner from -> (to x, to y)
SubfaceFrame(from, tox, toy) ==
    FrameFromXY(
        gut_normalize_vector(gut_vector(SubfaceCorner(from), SubfaceCorner(tox))),
        gut_normalize_vector(gut_vector(SubfaceCorner(from), SubfaceCorner(toy))))

SubfaceMatrices(r0, r1, r2) ==
    [m0 |-> r0.m, mt0 |-> r0.mt, m1 |-> r1.m, mt1 |-> r1.mt,
     m2 |-> r2.m, mt2 |-> r2.mt]

build_subface_transforms ==
    SubfaceMatrices(SubfaceFrame0, SubfaceFrame(0, 1, 2), SubfaceFrame(1, 2, 0))

\* the factors each entry [aSrc][aDst] of the region table is built from,
\* in the order they are multiplied (build_a_transforms, lines 508-577):
\* <<>> is mtx_set_unity, one name a memcpy, two names one
\* mtx_multiply_matrix, three names the product through the temporary mm.
\* ARow(aSrc) lists the entries for aDst = 0..5.
ARow(aSrc) ==
    CASE aSrc = 0 ->
            << <<>>, <<"mx", "mt1">>, <<"mt1">>,
               <<"mx", "mt2">>, <<"mt2">>, <<"mx">> >>
      [] aSrc = 1 ->
            << <<"m1", "mx">>, <<>>, <<"m1", "mx", "mt1">>,
               <<"m1", "mt2">>, <<"mx">>, <<"m1">> >>
      [] aSrc = 2 ->
            << <<"m1">>, <<"m1", "mx", "mt1">>, <<>>,
               <<"mx">>, <<"m1", "mt2">>, <<"m1", "mx">> >>
      [] aSrc = 3 ->
            << <<"m2", "mx">>, <<"m2", "mt1">>, <<"mx">>,
               <<>>, <<"m2", "mx", "mt2">>, <<"m2">> >>
      [] aSrc = 4 ->
            << <<"m2">>, <<"mx">>, <<"m2", "mt1">>,
               <<"m2", "mx", "mt2">>, <<>>, <<"m2", "mx">> >>
      [] aSrc = 5 ->
            << <<"mx">>, <<"mt1">>, <<"mx", "mt1">>,
               <<"mt2">>, <<"mx", "mt2">>, <<>> >>

TwoOf(r) == IF Len(r) = 3 THEN <<r[1], r[3]>> ELSE r

\* a variant of the table below that never goes through the temporary mm:
\* the mirror is left out of the three factor entries
ARecipeWithoutTemporary(aSrc, aDst) == TwoOf(ARow(aSrc)[aDst + 1])

\* a variant of the table below with the two factor products taken in the
\* other order
ARecipeOtherOrder(aSrc, aDst) ==
    IF Len(ARow(aSrc)[aDst + 1]) = 2
    THEN <<ARow(aSrc)[aDst + 1][2], ARow(aSrc)[aDst + 1][1]>>
    ELSE ARow(aSrc)[aDst + 1]

ARecipe(aSrc, aDst) == ARow(aSrc)[aDst + 1]

\* a variant of the factors below with the transposes not taken
FactorUntransposed(name, fc) ==
    CASE name = "mx"  -> mtx_create_scale_matrix(Whole(-1), One, One)
      [] name = "m1"  -> fc.m1
      [] name = "mt1" -> fc.m1
      [] name = "m2"  -> fc.m2
      [] name = "mt2" -> fc.m2

\* the matrix a factor names: mx is the x axis mirror of line 501
Factor(name, fc) ==
    CASE name = "mx"  -> mtx_create_scale_matrix(Whole(-1), One, One)
      [] name = "m1"  -> fc.m1
      [] name = "mt1" -> fc.mt1
      [] name = "m2"  -> fc.m2
      [] name = "mt2" -> fc.mt2

\* one entry of the table from its factors
ABuild(r_, fc_) ==
    CHOOSE rv \in {(
        CASE Len(r) = 0 -> mtx_set_unity
          [] Len(r) = 1 -> Factor(r[1], fc)
          [] Len(r) = 2 -> mtx_multiply_matrix(Factor(r[1], fc), Factor(r[2], fc))
          [] Len(r) = 3 ->
                mtx_multiply_matrix(
                    mtx_multiply_matrix(Factor(r[1], fc), Factor(r[2], fc)),
                    Factor(r[3], fc))
        ) : r \in {r_}, fc \in {fc_}} : TRUE

Regions == 0..5

\* build_a_transforms: pgm->subface[aSrc].sub[aDst].m for all 36 pairs
build_a_transforms(fc) ==
    [aSrc \in Regions |-> [aDst \in Regions |-> ABuild(ARecipe(aSrc, aDst), fc)]]

\* subface_exchange(aSrc, aDst, pSrc, pDst, subface)
subface_exchange(aSrc_, aDst_, pSrc_, sf_) ==
    CHOOSE rv \in {(
        Vec4Times(pSrc, sf[aSrc][aDst])
        ) : aSrc \in {aSrc_}, aDst \in {aDst_}, pSrc \in {pSrc_}, sf \in {sf_}} : TRUE

(***************************************************************************)
(* PART 5.  The spherical/Cartesian converter and the triangle solver.     *)
(***************************************************************************)
\* double ZERO = 0.00000000000001; a few units of the last place of a
\* coordinate of size one: here the smallest magnitude above zero
ZERO == Num(1)

\* a variant of the azimuth below with the sign of the half turn of the
\* third quadrant lost
AzimuthThirdQuadrantSlip(p) ==
    IF FLeq(FAbs(p.x), ZERO)
    THEN IF FLeq(FAbs(p.y), ZERO) THEN Zero
         ELSE IF FLess(Zero, p.y) THEN DTR(Whole(90))
         ELSE DTR(Whole(-90))
    ELSE IF FLess(Zero, p.x)
    THEN IF FLeq(FAbs(p.y), ZERO) THEN Zero
         ELSE FAtan(FDiv(p.y, p.x))
    ELSE IF FLeq(FAbs(p.y), ZERO) THEN DTR(Whole(180))
         ELSE FAdd(DTR(Whole(180)), FAtan(FDiv(p.y, p.x)))

\* the azimuth of gut_cartesian_to_spherical (lines 216-242)
Azimuth(p) ==
    IF FLeq(FAbs(p.x), ZERO)
    THEN IF FLeq(FAbs(p.y), ZERO) THEN Zero
         ELSE IF FLess(Zero, p.y) THEN DTR(Whole(90))
         ELSE DTR(Whole(-90))
    ELSE IF FLess(Zero, p.x)
    THEN IF FLeq(FAbs(p.y), ZERO) THEN Zero
         ELSE FAtan(FDiv(p.y, p.x))
    ELSE IF FLeq(FAbs(p.y), ZERO) THEN DTR(Whole(180))
         ELSE IF FLess(Zero, p.y)
              THEN FAdd(DTR(Whole(180)), FAtan(FDiv(p.y, p.x)))
         ELSE FAdd(DTR(Whole(-180)), FAtan(FDiv(p.y, p.x)))

\* a variant of the converter below that clears the angles of a point at
\* the origin
AnglesForCleared(p, s, radius) ==
    IF FLess(ZERO, FAbs(radius))
    THEN SphericalCoord(radius, Azimuth(p), FAcos(FDiv(p.z, radius)))
    ELSE SphericalCoord(radius, Zero, Zero)

\* gut_cartesian_to_spherical(p, s): the new *s
\* if (fabs(s->radius) > ZERO) ... else return;
AnglesFor(p, s, radius) ==
    IF FLess(ZERO, FAbs(radius))
    THEN SphericalCoord(radius, Azimuth(p), FAcos(FDiv(p.z, radius)))
    ELSE [s EXCEPT !.radius = radius]

gut_cartesian_to_spherical(p_, s_) ==
    CHOOSE rv \in {(
        AnglesFor(p, s, FSqrt(FAdd(FAdd(FMul(p.x, p.x), FMul(p.y, p.y)),
                                   FMul(p.z, p.z))))
        ) : p \in {p_}, s \in {s_}} : TRUE

\* the clamp of asin_clamp (lines 887-894)
Clamp(equation_) ==
    CHOOSE rv \in {(
        IF FLess(One, equation) THEN One
        ELSE IF FLess(equation, FNeg(One)) THEN FNeg(One)
        ELSE equation
        ) : equation \in {equation_}} : TRUE

Half(x) == FDiv(x, Whole(2))

Twice(x) == FMul(x, Whole(2))

\* a variant of the test below with both comparisons inclusive
AmbiguousCaseInclusive(b, c, C) == FLeq(c, b) /\ FLeq(C, DTR(Whole(90)))

\* if (b > c && C < DTR(90.0))
AmbiguousCase(b, c, C) == FLess(c, b) /\ FLess(C, DTR(Whole(90)))

\* v = tan((C - B) / 2.0)*sin((c + b) / 2.0) / sin((c - b) / 2.0);
\* A = atan(1 / v) * 2.0;
CandidateA(b_, c_, C_, B_) ==
    CHOOSE rv \in {(
        FMul(FAtan(FDiv(One,
                        FDiv(FMul(FTan(Half(FSub(C, B))), FSin(Half(FAdd(c, b)))),
                             FSin(Half(FSub(c, b)))))),
             Whole(2))
        ) : b \in {b_}, c \in {c_}, C \in {C_}, B \in {B_}} : TRUE

\* a variant of the selection below that always falls back
SelectSupplementaryAlways(A, B, A2, B2) == [A |-> A2, B |-> B2]

\* a variant of the selection below that never falls back
SelectPrimaryAlways(A, B, A2, B2) == [A |-> A, B |-> B]

\* if (A < 0) { A = A2; B = B2; }
SelectCandidate(A, B, A2, B2) ==
    IF FLess(A, Zero) THEN [A |-> A2, B |-> B2] ELSE [A |-> A, B |-> B]

\* B2 = DTR(180.0) - B; and the two candidates for A (lines 914-920)
Candidates(b_, c_, C_, B_, B2_) ==
    CHOOSE rv \in {(
        [A |-> CandidateA(b, c, C, B), B |-> B,
         A2 |-> CandidateA(b, c, C, B2), B2 |-> B2]
        ) : b \in {b_}, c \in {c_}, C \in {C_}, B \in {B_}, B2 \in {B2_}} : TRUE

\* sin(C)*sin(b) / sin(c), the argument of asin at line 913
AmbiguousArgB(b_, c_, C_) ==
    CHOOSE rv \in {(
        FDiv(FMul(FSin(C), FSin(b)), FSin(c))
        ) : b \in {b_}, c \in {c_}, C \in {C_}} : TRUE

\* sin(A)*sin(b) / sin(B), the argument of asin at line 929
AmbiguousArgSide(b_, A_, B_) ==
    CHOOSE rv \in {(
        FDiv(FMul(FSin(A), FSin(b)), FSin(B))
        ) : b \in {b_}, A \in {A_}, B \in {B_}} : TRUE

\* st->B = B; st->A = A; st->a = asin(...);  asin lists the argument handed
\* to each asin() call, in call order
AmbiguousStore(b_, c_, C_, q1_, cand_, sel_, q2_) ==
    CHOOSE rv \in {(
        [a |-> FAsin(q2), b |-> b, c |-> c, A |-> sel.A, B |-> sel.B, C |-> C,
         branch |-> "ambiguous", cand |-> cand, asin |-> <<q1, q2>>]
        ) : b \in {b_}, c \in {c_}, C \in {C_}, q1 \in {q1_}, cand \in {cand_}, sel \in {sel_}, q2 \in {q2_}} : TRUE

AmbiguousSelected(b_, c_, C_, q1_, cand_, sel_) ==
    CHOOSE rv \in {(
        AmbiguousStore(b, c, C, q1, cand, sel, AmbiguousArgSide(b, sel.A, sel.B))
        ) : b \in {b_}, c \in {c_}, C \in {C_}, q1 \in {q1_}, cand \in {cand_}, sel \in {sel_}} : TRUE

AmbiguousCandidates(b_, c_, C_, q1_, cand_) ==
    CHOOSE rv \in {(
        AmbiguousSelected(b, c, C, q1, cand,
                          SelectCandidate(cand.A, cand.B, cand.A2, cand.B2))
        ) : b \in {b_}, c \in {c_}, C \in {C_}, q1 \in {q1_}, cand \in {cand_}} : TRUE

AmbiguousFromB(b_, c_, C_, q1_, B_) ==
    CHOOSE rv \in {(
        AmbiguousCandidates(b, c, C, q1,
                            Candidates(b, c, C, B, FSub(DTR(Whole(180)), B)))
        ) : b \in {b_}, c \in {c_}, C \in {C_}, q1 \in {q1_}, B \in {B_}} : TRUE

\* the branch of lines 912-929
AmbiguousBranch(b_, c_, C_, q1_) ==
    CHOOSE rv \in {(
        AmbiguousFromB(b, c, C, q1, FAsin(q1))
        ) : b \in {b_}, c \in {c_}, C \in {C_}, q1 \in {q1_}} : TRUE

\* the argument asin_clamp hands to asin at line 896
UnambiguousArgB(b_, c_, C_) ==
    CHOOSE rv \in {(
        Clamp(FDiv(FMul(FSin(b), FSin(C)), FSin(c)))
        ) : b \in {b_}, c \in {c_}, C \in {C_}} : TRUE

\* a = 2.0 * atan(tan((b + c) / 2.0) * cos((B + C) / 2.0) / cos((B - C) / 2.0));
NapierSide(b_, c_, C_, B_) ==
    CHOOSE rv \in {(
        FMul(Whole(2),
             FAtan(FDiv(FMul(FTan(Half(FAdd(b, c))), FCos(Half(FAdd(B, C)))),
                        FCos(Half(FSub(B, C))))))
        ) : b \in {b_}, c \in {c_}, C \in {C_}, B \in {B_}} : TRUE

\* A = acos((cos(a) - cos(b) * cos(c)) / (sin(b) * sin(c)));
CosineAngle(a_, b_, c_) ==
    CHOOSE rv \in {(
        FAcos(FDiv(FSub(FCos(a), FMul(FCos(b), FCos(c))), FMul(FSin(b), FSin(c))))
        ) : a \in {a_}, b \in {b_}, c \in {c_}} : TRUE

UnambiguousStore(b_, c_, C_, q1_, B_, a_, A_) ==
    CHOOSE rv \in {(
        [a |-> a, b |-> b, c |-> c, A |-> A, B |-> B, C |-> C,
         branch |-> "unambiguous",
         cand |-> [A |-> A, B |-> B, A2 |-> A, B2 |-> B], asin |-> <<q1>>]
        ) : b \in {b_}, c \in {c_}, C \in {C_}, q1 \in {q1_}, B \in {B_}, a \in {a_}, A \in {A_}} : TRUE

UnambiguousFromSide(b_, c_, C_, q1_, B_, a_) ==
    CHOOSE rv \in {(
        UnambiguousStore(b, c, C, q1, B, a, CosineAngle(a, b, c))
        ) : b \in {b_}, c \in {c_}, C \in {C_}, q1 \in {q1_}, B \in {B_}, a \in {a_}} : TRUE

UnambiguousFromB(b_, c_, C_, q1_, B_) ==
    CHOOSE rv \in {(
        UnambiguousFromSide(b, c, C, q1, B, NapierSide(b, c, C, B))
        ) : b \in {b_}, c \in {c_}, C \in {C_}, q1 \in {q1_}, B \in {B_}} : TRUE

\* the branch of lines 933-939
UnambiguousBranch(b_, c_, C_, q1_) ==
    CHOOSE rv \in {(
        UnambiguousFromB(b, c, C, q1, FAsin(q1))
        ) : b \in {b_}, c \in {c_}, C \in {C_}, q1 \in {q1_}} : TRUE

\* sph_tri_bcC(st): the solved triangle, with the branch taken, the two
\* candidates of the ambiguous branch and the arguments of the asin() calls
sph_tri_bcC(st_) ==
    CHOOSE rv \in {(
        IF AmbiguousCase(st.b, st.c, st.C)
        THEN AmbiguousBranch(st.b, st.c, st.C, AmbiguousArgB(st.b, st.c, st.C))
        ELSE UnambiguousBranch(st.b, st.c, st.C,
                               UnambiguousArgB(st.b, st.c, st.C))
        ) : st \in {st_}} : TRUE

\* st.a = st.b = st.c = st.A = st.B = st.C = 0; st.b = b; st.c = c; st.C = C;
TriangleOf(b, c, C) ==
    [a |-> Zero, b |-> b, c |-> c, A |-> Zero, B |-> Zero, C |-> C]

(***************************************************************************)
(* PART 6.  Vertices: one defined instance replicated into the six regions *)
(***************************************************************************)
UninitMatrix == [n \in 0..15 |-> Uninit]

\* a VERTEX of the PROGRAM on main's stack, before anything is stored in it
UninitVertex ==
    [p |-> [i \in Regions |-> UninitPoint], sc |-> [i \in Regions |-> UninitSC]]

\* a GUT_POINT read from memory; g is what a never written double holds
LoadPoint(p, g) == Point(Load(p.x, g), Load(p.y, g), Load(p.z, g), Load(p.w, g))

\* generate_all_vertices(pgm, v, a): the new pgm->v[v]
\* the spherical coordinates recomputed from the six points (lines 461-462)
WithSpherical(p_, sc_) ==
    CHOOSE rv \in {(
        [p |-> p,
         sc |-> Array([i \in Regions |->
                          gut_cartesian_to_spherical(p[i], sc[i])])]
        ) : p \in {p_}, sc \in {sc_}} : TRUE

\* (GUT_VECTOR*)pgm->v[v].p : six points read or stored as vectors
AsVectors(p_) ==
    CHOOSE rv \in {(
        Array([i \in Regions |-> AsVector(p[i])])
        ) : p \in {p_}} : TRUE

AsPoints(b_) ==
    CHOOSE rv \in {(
        Array([i \in Regions |-> AsPoint(b[i])])
        ) : b \in {b_}} : TRUE

\* the six global points back in the local frame (line 458)
ToLocal(gp_, pOld_, tmt_) ==
    CHOOSE rv \in {(
        AsPoints(mtx_vec4_multiply(6, gp, AsVectors(pOld), tmt))
        ) : gp \in {gp_}, pOld \in {pOld_}, tmt \in {tmt_}} : TRUE

\* the symmetrical counterparts of the global point gpa (lines 450-455)
Replicate(gpa_, a_, sf_) ==
    CHOOSE rv \in {(
        Array([i \in Regions |->
                  IF i = a THEN gpa ELSE subface_exchange(a, i, gpa, sf)])
        ) : gpa \in {gpa_}, a \in {a_}, sf \in {sf_}} : TRUE

\* generate_all_vertices(pgm, v, a): the new pgm->v[v]
generate_all_vertices(fc_, sf_, vtx_, a_, g_) ==
    CHOOSE rv \in {(
        WithSpherical(
            ToLocal(Replicate(Vec4Times(AsVector(LoadPoint(vtx.p[a], g)), fc.tm),
                              a, sf),
                    vtx.p, fc.tmt),
            vtx.sc)
        ) : fc \in {fc_}, sf \in {sf_}, vtx \in {vtx_}, a \in {a_}, g \in {g_}} : TRUE

\* the instance a of the vertex set from spherical coordinates (radius 1)
StoreInstance(vtx_, a_, sc_) ==
    CHOOSE rv \in {(
        [vtx EXCEPT !.sc[a] = sc,
                    !.p[a] = gut_spherical_to_cartesian(sc, vtx.p[a])]
        ) : vtx \in {vtx_}, a \in {a_}, sc \in {sc_}} : TRUE

PlaceInstance(vtx_, a_, azimuth_, inclination_) ==
    CHOOSE rv \in {(
        StoreInstance(vtx, a, SphericalCoord(One, azimuth, inclination))
        ) : vtx \in {vtx_}, a \in {a_}, azimuth \in {azimuth_}, inclination \in {inclination_}} : TRUE

\* create_vertex_by_sc(pgm, v, a, azimuth, inclination): the new pgm->v[v]
create_vertex_by_sc(fc_, sf_, vtx_, a_, azimuth_, inclination_, g_) ==
    CHOOSE rv \in {(
        generate_all_vertices(fc, sf, PlaceInstance(vtx, a, azimuth, inclination),
                              a, g)
        ) : fc \in {fc_}, sf \in {sf_}, vtx \in {vtx_}, a \in {a_}, azimuth \in {azimuth_}, inclination \in {inclination_}, g \in {g_}} : TRUE

\* create_vertex_by_strig(pgm, v, a, b, c, C): the new pgm->v[v]
PlaceSolved(fc_, sf_, vtx_, a_, st_, g_) ==
    CHOOSE rv \in {(
        generate_all_vertices(fc, sf, PlaceInstance(vtx, a, st.A, st.c), a, g)
        ) : fc \in {fc_}, sf \in {sf_}, vtx \in {vtx_}, a \in {a_}, st \in {st_}, g \in {g_}} : TRUE

create_vertex_by_strig(fc_, sf_, vtx_, a_, b_, c_, C_, g_) ==
    CHOOSE rv \in {(
        PlaceSolved(fc, sf, vtx, a, sph_tri_bcC(TriangleOf(b, c, C)), g)
        ) : fc \in {fc_}, sf \in {sf_}, vtx \in {vtx_}, a \in {a_}, b \in {b_}, c \in {c_}, C \in {C_}, g \in {g_}} : TRUE

\* create_vertex_from_vertex(pgm, vd, ad, vs, as, b, C): the new pgm->v[vd]
create_vertex_from_vertex(fc_, sf_, vtxd_, ad_, vtxs_, as_, b_, C_, g_) ==
    CHOOSE rv \in {(
        create_vertex_by_strig(fc, sf, vtxd, ad, b,
                               Load(vtxs.sc[as].inclination, g), C, g)
        ) : fc \in {fc_}, sf \in {sf_}, vtxd \in {vtxd_}, ad \in {ad_}, vtxs \in {vtxs_}, as \in {as_}, b \in {b_}, C \in {C_}, g \in {g_}} : TRUE

(***************************************************************************)
(* PART 7.  The PROGRAM structure of main and the calls made on it.        *)
(*                                                                         *)
(* gpc is main's position in its start-up sequence; face and subface are   *)
(* pgm.face and pgm.subface; amade records, per table entry, the factors   *)
(* build_a_transforms multiplied to make it; pgm_v is pgm.v; call is the    *)
(* last create_vertex_* call made and how many were made so far.           *)
(***************************************************************************)
MaxVertex == 1

MaxCalls == 2

Slots == 0..MaxVertex

\* what a double of main's never initialised PROGRAM may hold when first read
Garbage == {Zero, NaN}

GarbageFor(x) == IF x.c = "uninit" THEN Garbage ELSE {Zero}

GarbageFor2(x, y) ==
    IF x.c = "uninit" \/ y.c = "uninit" THEN Garbage ELSE {Zero}

Deg(n) == DTR(Whole(n))

\* <<azimuth, inclination>> in degrees
ScInputs == {<<30, 15>>}

\* <<b, c, C>> in degrees
StrigInputs == {<<50, 40, 30>>, <<40, 50, 30>>}

\* <<b, C>> in degrees
FromInputs == {<<30, 40>>}

NoCall == [fn |-> "none", v |-> 0, a |-> 0, n |-> 0]

UninitFace ==
    [tm |-> UninitMatrix, tmt |-> UninitMatrix, m0 |-> UninitMatrix,
     mt0 |-> UninitMatrix, m1 |-> UninitMatrix, mt1 |-> UninitMatrix,
     m2 |-> UninitMatrix, mt2 |-> UninitMatrix]

MaxHops == 2

\* the points carried through the region table: [a0, p0] where the point
\* started, [a, p] where it is after hops exchanges, path the regions passed
ProbePoints ==
    {Vector(One, Zero, Zero, One),
     Vector(Num(6000), Zero, Num(8000), Zero),
     Vector(Num(3600), Num(-4800), Num(8000), One)}

Probes ==
    {[a0 |-> a, p0 |-> p, a |-> a, p |-> p, hops |-> 0, path |-> <<a>>] :
        a \in Regions, p \in ProbePoints}

\* PROGRAM pgm; (main, line 1699)
GeomInit ==
    /\ gpc = "face"
    /\ face = UninitFace
    /\ subface = [i \in Regions |-> [j \in Regions |-> UninitMatrix]]
    /\ amade = [i \in Regions |-> [j \in Regions |-> <<"uninit">>]]
    /\ pgm_v = [n \in Slots |-> UninitVertex]
    /\ call = NoCall
    /\ ref = [A |-> Uninit, B |-> Uninit, a |-> Uninit, b |-> Uninit,
              c |-> Uninit]

\* memcpy of the matrices built into pgm->face
StoreFace(fc, r) == [fc EXCEPT !.tm = r.tm, !.tmt = r.tmt]

StoreSubface(fc, r) ==
    [fc EXCEPT !.m0 = r.m0, !.mt0 = r.mt0, !.m1 = r.m1, !.mt1 = r.mt1,
               !.m2 = r.m2, !.mt2 = r.mt2]

\* build_face_transforms(&pgm);
DoBuildFaceTransforms ==
    /\ gpc = "face"
    /\ face' = StoreFace(face, build_face_transforms)
    /\ gpc' = "subface"
    /\ UNCHANGED <<subface, amade, pgm_v, call, probe, ref, loopVars, triVars, unitVars, mainVars>>

\* build_subface_transforms(&pgm);
DoBuildSubfaceTransforms ==
    /\ gpc = "subface"
    /\ face' = StoreSubface(face, build_subface_transforms)
    /\ gpc' = "a"
    /\ UNCHANGED <<subface, amade, pgm_v, call, probe, ref, loopVars, triVars, unitVars, mainVars>>

\* build_a_transforms(&pgm);
DoBuildATransforms ==
    /\ gpc = "a"
    /\ subface' = build_a_transforms(face)
    /\ amade' = [i \in Regions |-> [j \in Regions |-> ARecipe(i, j)]]
    /\ gpc' = "ref"
    /\ UNCHANGED <<face, pgm_v, call, probe, ref, loopVars, triVars, unitVars, mainVars>>

\* pgm.ref.A = DTR(36.0); pgm.ref.B = DTR(60.0); and the three sides by the
\* right triangle rules (main, lines 1716-1723)
ReferenceTriangle(A, B) ==
    [A |-> A, B |-> B,
     a |-> FAcos(FDiv(FCos(A), FSin(B))),
     b |-> FAcos(FDiv(FCos(B), FSin(A))),
     c |-> FAcos(FDiv(One, FMul(FTan(A), FTan(B))))]

DoInitRef ==
    /\ gpc = "ref"
    /\ ref' = ReferenceTriangle(DTR(Whole(36)), DTR(Whole(60)))
    /\ gpc' = "ready"
    /\ UNCHANGED <<face, subface, amade, pgm_v, call, probe, loopVars,
                   triVars, unitVars, mainVars>>

\* subface_exchange(probe.a, aDst, &probe.p, &probe.p, pgm->subface);
DoSubfaceExchange ==
    /\ gpc = "ready"
    /\ probe.hops < MaxHops
    /\ \E aDst \in Regions :
          probe' = [probe EXCEPT
                       !.a = aDst,
                       !.p = subface_exchange(probe.a, aDst, probe.p, subface),
                       !.hops = probe.hops + 1,
                       !.path = Append(probe.path, aDst)]
    /\ UNCHANGED <<gpc, face, subface, amade, pgm_v, call, ref, loopVars, triVars, unitVars, mainVars>>

Created(vs) == pgm_v[vs].p[0].x.c # "uninit"

DoCreateVertexBySc ==
    /\ gpc = "ready"
    /\ call.n < MaxCalls
    /\ \E vd \in Slots, a \in Regions, in \in ScInputs :
         \E g \in GarbageFor(pgm_v[vd].p[a].w) :
            /\ pgm_v' = [pgm_v EXCEPT ![vd] =
                        create_vertex_by_sc(face, subface, pgm_v[vd], a,
                                            Deg(in[1]), Deg(in[2]), g)]
            /\ call' = [fn |-> "sc", v |-> vd, a |-> a, n |-> call.n + 1]
    /\ UNCHANGED <<gpc, face, subface, amade, probe, ref, loopVars, triVars, unitVars, mainVars>>

DoCreateVertexByStrig ==
    /\ gpc = "ready"
    /\ call.n < MaxCalls
    /\ \E vd \in Slots, a \in Regions, in \in StrigInputs :
         \E g \in GarbageFor(pgm_v[vd].p[a].w) :
            /\ pgm_v' = [pgm_v EXCEPT ![vd] =
                        create_vertex_by_strig(face, subface, pgm_v[vd], a,
                            Deg(in[1]), Deg(in[2]), Deg(in[3]), g)]
            /\ call' = [fn |-> "strig", v |-> vd, a |-> a, n |-> call.n + 1]
    /\ UNCHANGED <<gpc, face, subface, amade, probe, ref, loopVars, triVars, unitVars, mainVars>>

DoCreateVertexFromVertex ==
    /\ gpc = "ready"
    /\ call.n < MaxCalls
    /\ \E vd \in Slots, ad \in Regions, vs \in Slots, as \in Regions,
          in \in FromInputs :
         /\ Created(vs)
         /\ \E g \in GarbageFor2(pgm_v[vd].p[ad].w,
                                   pgm_v[vs].sc[as].inclination) :
              /\ pgm_v' = [pgm_v EXCEPT ![vd] =
                          create_vertex_from_vertex(face, subface, pgm_v[vd], ad,
                              pgm_v[vs], as, Deg(in[1]), Deg(in[2]), g)]
              /\ call' = [fn |-> "from", v |-> vd, a |-> ad, n |-> call.n + 1]
    /\ UNCHANGED <<gpc, face, subface, amade, probe, ref, loopVars, triVars, unitVars, mainVars>>


(***************************************************************************)
(* PART 8.  One call of the oblique triangle solver.                       *)
(***************************************************************************)
\* sph_tri_bcC(&st); deg keeps the angles the caller gave, in degrees
DoSphTriBcC ==
    /\ tpc = "in"
    /\ sph_tri' = [deg |-> sph_tri.deg, tri |-> sph_tri_bcC(sph_tri.tri)]
    /\ tpc' = "out"
    /\ UNCHANGED <<loopVars, geomVars, unitVars, mainVars>>

(***************************************************************************)
(* PART 8b.  Single calls of the converter and of the matrix product.      *)
(***************************************************************************)
MaxCoord == 2

\* coordinates around the ZERO threshold, and of size one
Coords == {Num(n) : n \in (0 - MaxCoord)..MaxCoord} \cup {Whole(-1), Whole(1)}

\* what *s holds when the converter is called: never written, or the
\* angles of an earlier conversion
PriorSC == {UninitSC, SphericalCoord(One, DTR(Whole(45)), DTR(Whole(60)))}

ConvIdle == conv = [p |-> UninitPoint, s0 |-> UninitSC, s |-> UninitSC,
                    pc |-> "idle"]

MaxMatrix == 4

\* a full matrix: sixteen entries, every row and column its own
Counting(k) == [n \in 0..15 |-> Whole((((n + 1) * k) % 7) - 3)]

\* the arrays mtx_multiply_matrix is run on: the matrices the builders
\* hand it (unity, the x mirror, a rotation about z) and full ones
MulMatrices ==
    {mtx_set_unity,
     mtx_create_scale_matrix(Whole(-1), One, One),
     build_rotation_matrix(Vector(Zero, One, Zero, Zero),
                           Vector(Whole(-1), Zero, Zero, Zero),
                           Vector(Zero, Zero, One, Zero)).m}
    \cup {Counting(k) : k \in 1..MaxMatrix}

\* mtx_multiply_matrix(a, b, c);
DoMultiplyMatrix ==
    /\ mm.pc = "in"
    /\ mm' = [mm EXCEPT !.c = mtx_multiply_matrix(mm.a, mm.b), !.pc = "out"]
    /\ UNCHANGED <<conv, twin, loopVars, geomVars, triVars, mainVars>>

\* gut_cartesian_to_spherical(&p, &s);
DoCartesianToSpherical ==
    /\ conv.pc = "in"
    /\ conv' = [conv EXCEPT !.s = gut_cartesian_to_spherical(conv.p, conv.s0),
                            !.pc = "out"]
    /\ UNCHANGED <<mm, twin, loopVars, geomVars, triVars, mainVars>>

(***************************************************************************)
(* PART 8c.  One vertex followed from its creation to the output file in   *)
(* two runs of main that differ only in the garbage of the PROGRAM.        *)
(***************************************************************************)
\* what the w of a point of pgm.v may hold when main starts
TwinGarbage == Garbage \cup {One}

\* the create_vertex_by_sc calls of classI_2v, classI_3v and classI_4v:
\* region, azimuth and inclination
TwinCalls(r) ==
    {<<0, Zero, FAdd(FMul(r.b, Whole(2)), FAdd(r.c, r.a))>>,
     <<0, DTR(Whole(36)), FMul(FAdd(r.c, r.a), Whole(2))>>,
     <<0, Zero, FAdd(FMul(r.b, Whole(2)), r.c)>>,
     <<2, Zero, DTR(Whole(90))>>}

\* fprintf(fp, "%12.9f %12.9f %12.9f \n", gp[i].x, gp[i].y, gp[i].z): the
\* text of a double, nine places being more than the numbers here carry
PrintF(x) ==
    IF IsNaN(x) THEN <<"nan">>
    ELSE IF IsInf(x) THEN <<IF x.s < 0 THEN "-inf" ELSE "inf">>
    ELSE <<IF x.s < 0 THEN "-" ELSE "", x.m \div Scale, x.m % Scale>>

PrintLine(gp) == <<PrintF(gp.i), PrintF(gp.j), PrintF(gp.k)>>

\* lp[i] = pgm->v[..].p[..]; mtx_vec4_multiply(n, lp, gp, pgm->face.tm); and
\* the vertex lines of the file, for the instances 0, 4 and 1 of the vertex
OutputLines(vtx, fc) ==
    <<PrintLine(Vec4Times(AsVector(vtx.p[0]), fc.tm)),
      PrintLine(Vec4Times(AsVector(vtx.p[4]), fc.tm)),
      PrintLine(Vec4Times(AsVector(vtx.p[1]), fc.tm))>>

TwinIdle == twin = [g |-> <<Zero, Zero>>, v |-> <<UninitVertex, UninitVertex>>,
                    out |-> <<<<>>, <<>>>>, pc |-> "idle"]

\* create_vertex_by_sc(pgm, v, a, azimuth, inclination); in both runs
DoTwinCreate ==
    /\ gpc = "ready"
    /\ twin.pc = "create"
    /\ \E in \in TwinCalls(ref) :
          twin' = [twin EXCEPT
                     !.v = [n \in 1..2 |->
                              create_vertex_by_sc(face, subface, twin.v[n],
                                                  in[1], in[2], in[3],
                                                  twin.g[n])],
                     !.pc = "output"]
    /\ UNCHANGED <<conv, mm, loopVars, geomVars, triVars, mainVars>>

\* classI_Nv_output(pgm, filename); in both runs
DoTwinOutput ==
    /\ twin.pc = "output"
    /\ twin' = [twin EXCEPT
                  !.out = [n \in 1..2 |-> OutputLines(twin.v[n], face)],
                  !.pc = "printed"]
    /\ UNCHANGED <<conv, mm, loopVars, geomVars, triVars, mainVars>>

(***************************************************************************)
(* PART 9.  main: the frequencies (2,0) to (7,0) in order.                 *)
(*                                                                         *)
(* A step is a configuration routine (classI_Nv), a search (build_loop on  *)
(* a residual function, with its seed in units of DTR(0.5)) or an output   *)
(* function with the file it writes.  The residual functions of the        *)
(* searches are drawn from the family of Residual.                         *)
(***************************************************************************)
Config(name) == [op |-> "config", name |-> name, seed |-> 0]

Search(name, halfDegrees) ==
    [op |-> "search", name |-> name, seed |-> halfDegrees]

Output(name) == [op |-> "output", name |-> name, seed |-> 0]

\* classI_2v_solution ... classI_7v_solution as main calls them
MainSteps ==
    << Config("classI_2v"), Output("icosa20.off"),
       Config("classI_3v"), Output("icosa30.off"),
       Config("classI_4v"), Output("icosa40.off"),
       Search("classI_5v", 18), Output("icosa50.off"),
       Config("classI_6v"), Search("classI_6v_a", 10), Output("icosa60_a.off"),
       Config("classI_6v"), Search("classI_6v_b", 12), Output("icosa60_b.off"),
       Search("classI_7v_a", 11),
       Search("classI_7v_b1", 8), Output("icosa70_a.off"),
       Search("classI_7v_b2", 8), Output("icosa70_b.off"),
       Search("classI_7v_b3", 8), Output("icosa70_c.off") >>

MainEnd == Len(MainSteps) + 1

Done(step, capped) == [op |-> step.op, name |-> step.name, capped |-> capped]

\* what an output function did: the file it tried to open, whether fopen_s
\* gave a stream, the line it printed and the vertex lines it wrote
OutputResult(name, opened, said, lines) ==
    [name |-> name, opened |-> opened, said |-> said, lines |-> lines]

NoOutput == OutputResult("", FALSE, "", 0)

\* the frequency (N of classI_Nv_solution) each step of MainSteps belongs to
Frequency ==
    <<2, 2, 3, 3, 4, 4, 5, 5, 6, 6, 6, 6, 6, 6, 7, 7, 7, 7, 7, 7, 7>>

\* the entries of pgm->v a configuration or residual function stores into
\* (the first argument of its create_vertex_* calls)
Writes(name) ==
    CASE name = "classI_2v"    -> {0, 1}
      [] name = "classI_3v"    -> {2, 1, 0}
      [] name = "classI_4v"    -> {2, 0, 3, 1}
      [] name = "classI_5v"    -> {3, 4, 1, 0, 2}
      [] name = "classI_6v"    -> {0, 6, 3, 1, 5, 2}
      [] name = "classI_6v_a"  -> {4}
      [] name = "classI_6v_b"  -> {4}
      [] name = "classI_7v_a"  -> {3, 7, 4, 0, 1, 6, 2}
      [] name = "classI_7v_b1" -> {5}
      [] name = "classI_7v_b2" -> {5}
      [] name = "classI_7v_b3" -> {5}
      [] OTHER -> {}

\* the entries of pgm->v a function touches, in the order of its statements:
\* <<"w", n>> for a create_vertex_* call that stores into pgm->v[n],
\* <<"r", n>> for a read of pgm->v[n] (the source of create_vertex_from_vertex,
\* an inclination passed as an argument or compared, a point copied to lp[])
Accesses(name) ==
    CASE name = "classI_2v" -> << <<"w", 0>>, <<"w", 1>> >>
      [] name = "classI_3v" ->
            << <<"w", 2>>, <<"w", 1>>, <<"r", 2>>, <<"w", 0>> >>
      [] name = "classI_4v" ->
            << <<"w", 2>>, <<"w", 0>>, <<"w", 3>>, <<"r", 3>>, <<"w", 1>> >>
      [] name = "classI_5v" ->
            << <<"w", 3>>, <<"r", 3>>, <<"w", 4>>, <<"r", 3>>, <<"w", 1>>,
               <<"r", 3>>, <<"w", 0>>, <<"w", 2>>, <<"r", 4>>, <<"r", 0>> >>
      [] name = "classI_6v" ->
            << <<"w", 0>>, <<"w", 6>>, <<"w", 3>>, <<"r", 6>>, <<"w", 1>>,
               <<"r", 1>>, <<"w", 5>>, <<"r", 5>>, <<"w", 2>> >>
      [] name = "classI_6v_a" ->
            << <<"r", 5>>, <<"w", 4>>, <<"r", 4>>, <<"r", 1>> >>
      [] name = "classI_6v_b" ->
            << <<"r", 5>>, <<"w", 4>>, <<"r", 4>>, <<"r", 0>> >>
      [] name = "classI_7v_a" ->
            << <<"w", 3>>, <<"w", 7>>, <<"r", 7>>, <<"w", 4>>, <<"r", 7>>,
               <<"w", 0>>, <<"r", 7>>, <<"w", 1>>, <<"r", 4>>, <<"w", 6>>,
               <<"r", 4>>, <<"w", 2>>, <<"r", 6>>, <<"r", 1>> >>
      [] name = "classI_7v_b1" ->
            << <<"r", 0>>, <<"w", 5>>, <<"r", 5>>, <<"r", 1>> >>
      [] name = "classI_7v_b2" ->
            << <<"r", 0>>, <<"w", 5>>, <<"r", 5>>, <<"r", 4>> >>
      [] name = "classI_7v_b3" ->
            << <<"r", 4>>, <<"w", 5>>, <<"r", 5>>, <<"r", 1>> >>
      [] name = "icosa20.off" -> [n \in 1..2 |-> <<"r", n - 1>>]
      [] name = "icosa30.off" -> [n \in 1..3 |-> <<"r", n - 1>>]
      [] name = "icosa40.off" -> [n \in 1..4 |-> <<"r", n - 1>>]
      [] name = "icosa50.off" -> [n \in 1..5 |-> <<"r", n - 1>>]
      [] name \in {"icosa60_a.off", "icosa60_b.off"} ->
            [n \in 1..7 |-> <<"r", n - 1>>]
      [] OTHER -> [n \in 1..8 |-> <<"r", n - 1>>]

\* whether the function reads pgm->ref
ReadsRef(name) ==
    name \in {"classI_2v", "classI_3v", "classI_4v", "classI_5v",
              "classI_6v", "classI_7v_a"}

\* the number of vertex lines an output function prints into its file
VertexLines(name) ==
    CASE name = "icosa20.off" -> 4
      [] name = "icosa30.off" -> 5
      [] name = "icosa40.off" -> 7
      [] name = "icosa50.off" -> 9
      [] name \in {"icosa60_a.off", "icosa60_b.off"} -> 10
      [] OTHER -> 13

\* a variant of the list below with the reference triangle among the
\* members a configuration stores into
AssignsWithRef(step) == IF step.op = "output" THEN {} ELSE {"v", "ref"}

\* the members of *pgm a step's function assigns: the configurations and
\* residual functions store vertices, the output functions store nothing
Assigns(step) == IF step.op = "output" THEN {} ELSE {"v"}

\* a member of *pgm after the step: lost if the function assigns it
Kept(member, step, old, lost) ==
    IF member \in Assigns(step) THEN lost ELSE old

\* a variant of the marking below in which a function that stores a vertex
\* stores every entry of pgm->v
TaggedThroughout(tags, step, frequency) ==
    IF "v" \in Assigns(step) THEN [n \in DOMAIN tags |-> frequency] ELSE tags

\* pgm->v after the step, each entry marked with the frequency that wrote it
Tagged(tags, step, frequency) ==
    IF "v" \in Assigns(step)
    THEN [n \in DOMAIN tags |->
             IF n \in Writes(step.name) THEN frequency ELSE tags[n]]
    ELSE tags

NoTags == [n \in 0..19 |-> 0]

NoWriters == [n \in 0..19 |-> "none"]

NoRef == [A |-> Uninit, B |-> Uninit, a |-> Uninit, b |-> Uninit,
          c |-> Uninit]

NoTable == [i \in Regions |-> [j \in Regions |-> UninitMatrix]]

\* a variant of the continuation below that gives up on the sentinel
StopOnSentinel(pc, r) == IF DyIsNeg(r) THEN MainEnd ELSE pc + 1

\* the value build_loop returns is dropped by every caller: the statement
\* after the call runs next
AfterSearch(pc, r) == pc + 1

\* a variant of the continuation below that ends the run when no file
\* could be opened
StopOnOpenFailure(pc, opened) == IF opened THEN pc + 1 ELSE MainEnd

\* the output functions return nothing: the statement after the call runs
\* next whether the file was opened or not
AfterOutput(pc, opened) == pc + 1

\* the residual functions a search may be run on: one with no root within
\* reach and one with its root at the seed
MainResiduals(halfDegrees) ==
    {[kind |-> "flat", t |-> DyInt(1)],
     [kind |-> "rising", t |-> DyInt(halfDegrees)]}

\* a variant of the guard below that does not wait for main's start-up
MainReadyBeforeStartup == mpc < MainEnd /\ blpc = "idle"

MainReady == gpc = "ready" /\ mpc < MainEnd /\ blpc = "idle"

\* what the function of the step that comes next leaves in *pgm
ProgramAfterStep ==
    /\ face' = Kept("face", MainSteps[mpc], face, UninitFace)
    /\ subface' = Kept("subface", MainSteps[mpc], subface, NoTable)
    /\ ref' = Kept("ref", MainSteps[mpc], ref, NoRef)
    /\ vtag' = Tagged(vtag, MainSteps[mpc], Frequency[mpc])
    /\ vfrom' = Tagged(vfrom, MainSteps[mpc], MainSteps[mpc].name)
    /\ UNCHANGED <<gpc, amade, pgm_v, call, probe>>

\* classI_Nv(pgm);
MainConfig ==
    /\ MainReady
    /\ MainSteps[mpc].op = "config"
    /\ log' = Append(log, Done(MainSteps[mpc], FALSE))
    /\ mpc' = mpc + 1
    /\ lastout' = NoOutput
    /\ ProgramAfterStep
    /\ UNCHANGED <<unopened, loopVars, triVars, unitVars>>

\* double seed = DTR(...); build_loop(f, &seed, 0.00000000001, pgm); entered
MainStartSearch ==
    /\ MainReady
    /\ MainSteps[mpc].op = "search"
    /\ fn' \in MainResiduals(MainSteps[mpc].seed)
    /\ seed' = DyInt(MainSteps[mpc].seed)
    /\ seed0' = DyInt(MainSteps[mpc].seed)
    /\ prob' = BuildLoopEntry(Tol1e11)
    /\ diff' = DyZero
    /\ ret' = DyZero
    /\ note' = FALSE
    /\ blpc' = "call"
    /\ lastout' = NoOutput
    /\ UNCHANGED <<mpc, log, vtag, vfrom, unopened, geomVars, triVars, unitVars>>

\* build_loop has returned; its locals are gone, and the vertices its
\* residual function stored are in pgm->v
MainEndSearch ==
    /\ gpc = "ready"
    /\ mpc < MainEnd
    /\ blpc = "done"
    /\ log' = Append(log, Done(MainSteps[mpc], note))
    /\ mpc' = AfterSearch(mpc, ret)
    /\ fn' = [kind |-> "flat", t |-> DyZero]
    /\ seed' = DyZero
    /\ seed0' = DyZero
    /\ prob' = BuildLoopEntry(DyZero)
    /\ diff' = DyZero
    /\ ret' = DyZero
    /\ note' = FALSE
    /\ blpc' = "idle"
    /\ ProgramAfterStep
    /\ UNCHANGED <<lastout, unopened, triVars, unitVars>>

\* fopen_s(&fp, filename, "w"); if (!fp) { return; } printf(...); fprintf ...
OutputOf(name, opened) ==
    IF opened
    THEN OutputResult(name, TRUE, "Geometry output", VertexLines(name))
    ELSE OutputResult(name, FALSE, "", 0)

\* classI_Nv_output(pgm, filename): fopen_s may fail, and then the function
\* returns without writing
MainOutput ==
    /\ MainReady
    /\ MainSteps[mpc].op = "output"
    /\ \E opened \in BOOLEAN :
          /\ lastout' = OutputOf(MainSteps[mpc].name, opened)
          /\ unopened' = (unopened /\ ~opened)
          /\ mpc' = AfterOutput(mpc, opened)
    /\ log' = Append(log, Done(MainSteps[mpc], FALSE))
    /\ ProgramAfterStep
    /\ UNCHANGED <<loopVars, triVars, unitVars>>

(***************************************************************************)
(* SPECIFICATIONS                                                          *)
(***************************************************************************)
vars == <<loopVars, geomVars, triVars, unitVars, mainVars>>

(***************************************************************************)
(* SpecLoop: build_loop called once with a residual function, a seed and   *)
(* a tolerance drawn from bounded sets.                                    *)
(***************************************************************************)
MaxRoot == 1

MaxSeed == 1

MaxTolBits == 1

Roots ==
    {DyInt(n) : n \in 0..MaxRoot}
        \cup {DyHalf(DyInt(2 * n + 1)) : n \in 0..MaxRoot}
        \cup {Target12345, DyInt(max - 1)}

Residuals ==
    [kind : {"rising", "falling", "flat", "valley"}, t : Roots]

Seeds == {DyInt(n) : n \in (0 - MaxSeed)..MaxSeed}

RECURSIVE DyPow2(_)
DyPow2(k) == IF k = 0 THEN DyInt(1) ELSE DyHalf(DyPow2(k - 1))

Tolerances == {DyZero, Tol1e11} \cup {DyPow2(k) : k \in 1..MaxTolBits}

\* the parts of the state a specification does not exercise
LoopIdle ==
    /\ fn = [kind |-> "flat", t |-> DyZero]
    /\ seed = DyZero
    /\ seed0 = DyZero
    /\ prob = BuildLoopEntry(DyZero)
    /\ diff = DyZero
    /\ ret = DyZero
    /\ note = FALSE
    /\ blpc = "idle"

ProbeIdle ==
    probe = [a0 |-> 0, p0 |-> Vector(One, Zero, Zero, One), a |-> 0,
             p |-> Vector(One, Zero, Zero, One), hops |-> MaxHops,
             path |-> <<0>>]

MainIdle ==
    /\ mpc = MainEnd
    /\ log = <<>>
    /\ lastout = NoOutput
    /\ vtag = NoTags
    /\ vfrom = NoWriters
    /\ unopened = TRUE

MmIdle == mm = [a |-> UninitMatrix, b |-> UninitMatrix, c |-> UninitMatrix,
                pc |-> "idle"]

UnitIdle == ConvIdle /\ MmIdle /\ TwinIdle

TriIdle ==
    /\ sph_tri = [deg |-> <<0, 0, 0>>, tri |-> TriangleOf(Zero, Zero, Zero)]
    /\ tpc = "idle"

LoopInit ==
    /\ fn \in Residuals
    /\ seed \in Seeds
    /\ seed0 = seed
    /\ \E r_zero \in Tolerances : prob = BuildLoopEntry(r_zero)
    /\ diff = DyZero
    /\ ret = DyZero
    /\ note = FALSE
    /\ blpc = "call"
    /\ GeomInit
    /\ ProbeIdle
    /\ TriIdle
    /\ UnitIdle
    /\ MainIdle

LoopNext ==
    \/ BuildLoopCall
    \/ BuildLoopCap
    \/ BuildLoopConverged
    \/ BuildLoopStep

SpecLoop == LoopInit /\ [][LoopNext]_vars

(***************************************************************************)
(* SpecGeom: main's start-up sequence, then create_vertex_* calls with     *)
(* vertex slots, regions and angles drawn from bounded sets.               *)
(***************************************************************************)
GeomStart ==
    GeomInit /\ ProbeIdle /\ LoopIdle /\ TriIdle /\ UnitIdle /\ MainIdle

GeomNext ==
    \/ DoBuildFaceTransforms
    \/ DoBuildSubfaceTransforms
    \/ DoBuildATransforms
    \/ DoInitRef
    \/ DoCreateVertexBySc
    \/ DoCreateVertexByStrig
    \/ DoCreateVertexFromVertex

SpecGeom == GeomStart /\ [][GeomNext]_vars

(***************************************************************************)
(* SpecTable: main's start-up sequence, then a probe point carried from    *)
(* region to region by subface_exchange.                                   *)
(***************************************************************************)
TableInit ==
    /\ GeomInit /\ probe \in Probes /\ LoopIdle /\ TriIdle /\ MainIdle
    /\ UnitIdle

TableNext ==
    \/ DoBuildFaceTransforms
    \/ DoBuildSubfaceTransforms
    \/ DoBuildATransforms
    \/ DoInitRef
    \/ DoSubfaceExchange

SpecTable == TableInit /\ [][TableNext]_vars

(***************************************************************************)
(* SpecTri: sph_tri_bcC called once with b, c and C drawn from a grid of   *)
(* whole degrees inside (0, 180).                                          *)
(***************************************************************************)
TriStep == 10

Degrees == {d \in 1..179 : d % TriStep = 0}

TriInit ==
    /\ \E b \in Degrees, c \in Degrees, C \in Degrees :
          sph_tri = [deg |-> <<b, c, C>>,
                tri |-> TriangleOf(Deg(b), Deg(c), Deg(C))]
    /\ tpc = "in"
    /\ GeomInit
    /\ ProbeIdle
    /\ LoopIdle
    /\ UnitIdle
    /\ MainIdle

TriNext == DoSphTriBcC

SpecTri == TriInit /\ [][TriNext]_vars

(***************************************************************************)
(* SpecConv: gut_cartesian_to_spherical on every point of a grid.          *)
(***************************************************************************)
ConvInit ==
    /\ \E x \in Coords, y \in Coords, z \in Coords, s0 \in PriorSC :
          conv = [p |-> Point(x, y, z, One), s0 |-> s0, s |-> s0, pc |-> "in"]
    /\ MmIdle
    /\ TwinIdle
    /\ GeomInit
    /\ ProbeIdle
    /\ LoopIdle
    /\ TriIdle
    /\ MainIdle

ConvNext == DoCartesianToSpherical

SpecConv == ConvInit /\ [][ConvNext]_vars

(***************************************************************************)
(* SpecMul: mtx_multiply_matrix on every pair of a family of matrices.     *)
(***************************************************************************)
MulInit ==
    /\ \E a \in MulMatrices, b \in MulMatrices, 
             c \in {UninitMatrix, mtx_set_unity} :
          mm = [a |-> a, b |-> b, c |-> c, pc |-> "in"]
    /\ ConvIdle
    /\ TwinIdle
    /\ GeomInit
    /\ ProbeIdle
    /\ LoopIdle
    /\ TriIdle
    /\ MainIdle

MulNext == DoMultiplyMatrix

SpecMul == MulInit /\ [][MulNext]_vars

(***************************************************************************)
(* SpecTwin: main's start-up, then one vertex created and printed in two   *)
(* runs whose PROGRAM held different garbage.                              *)
(***************************************************************************)
TwinInit ==
    /\ \E g1 \in TwinGarbage, g2 \in TwinGarbage :
          twin = [g |-> <<g1, g2>>, v |-> <<UninitVertex, UninitVertex>>,
                  out |-> <<<<>>, <<>>>>, pc |-> "create"]
    /\ ConvIdle
    /\ MmIdle
    /\ GeomInit
    /\ ProbeIdle
    /\ LoopIdle
    /\ TriIdle
    /\ MainIdle

TwinNext ==
    \/ DoBuildFaceTransforms
    \/ DoBuildSubfaceTransforms
    \/ DoBuildATransforms
    \/ DoInitRef
    \/ DoTwinCreate
    \/ DoTwinOutput

SpecTwin == TwinInit /\ [][TwinNext]_vars

(***************************************************************************)
(* Spec: main from its first statement to its last.                        *)
(***************************************************************************)
Init ==
    /\ GeomInit
    /\ ProbeIdle
    /\ LoopIdle
    /\ TriIdle
    /\ UnitIdle
    /\ mpc = 1
    /\ log = <<>>
    /\ lastout = NoOutput
    /\ vtag = NoTags
    /\ vfrom = NoWriters
    /\ unopened = TRUE

Next ==
    \/ DoBuildFaceTransforms
    \/ DoBuildSubfaceTransforms
    \/ DoBuildATransforms
    \/ DoInitRef
    \/ MainConfig
    \/ MainStartSearch
    \/ BuildLoopCall
    \/ BuildLoopCap
    \/ BuildLoopConverged
    \/ BuildLoopStep
    \/ MainEndSearch
    \/ MainOutput

Spec == Init /\ [][Next]_vars


(***************************************************************************)
(* CLAIMS ON build_loop (SpecLoop)                                         *)
(***************************************************************************)
Returned == blpc = "done"

CallsBounded ==
    /\ prob.loop <= max
    /\ (blpc = "call" => prob.loop < max)
    /\ (Returned /\ ~WithinTolerance(prob, diff)
            => prob.loop = max /\ ret = DyInt(-1) /\ note)

\* what is left of a build_loop run: three units for every call the cap
\* still allows, and the position within the current pass
LoopMeasure ==
    CASE blpc = "idle" -> 3 * max + 3
      [] blpc = "call" -> 3 * (max - prob.loop) + 1
      [] blpc = "test" -> 3 * (max - prob.loop) + 2
      [] blpc = "done" -> 3 * (max - prob.loop)

\* C4: build_loop always returns, after at most 200 calls of the residual
\* function, for every residual function that returns, every seed and every
\* tolerance: the call counter never passes max, no call is pending once it
\* stands at max, a return without convergence happens only at the cap, with
\* the sentinel, and every step of the loop uses up some of a measure that
\* cannot fall below zero.
C4_TerminatesWithin200Calls ==
    /\ [](CallsBounded /\ LoopMeasure >= 0)
    /\ [][LoopMeasure' < LoopMeasure]_vars

C4_Witness ==
    /\ Returned
    /\ fn.kind = "valley"
    /\ prob.loop = max
    /\ ret = DyInt(-1)

\* C5: whenever the residual of an evaluation is within tolerance, the loop
\* stops at that evaluation and returns |diff|, a value in [0, tolerance],
\* at every iteration up to and including the cap.
C5_ReturnsResidualWhenWithinTolerance ==
    (Returned /\ WithinTolerance(prob, diff))
        => (ret = DyAbs(diff) /\ ~DyIsNeg(ret) /\ DyLeq(ret, prob.tolerance))

\* the same statement for the iterations below the cap, which the code meets
C5_BelowCap ==
    (Returned /\ WithinTolerance(prob, diff) /\ prob.loop < max)
        => (ret = DyAbs(diff) /\ ~DyIsNeg(ret) /\ DyLeq(ret, prob.tolerance))

C5_Witness ==
    /\ Returned
    /\ WithinTolerance(prob, diff)
    /\ prob.loop = max
    /\ ret = DyInt(-1)

\* C7: with f(x) = x - 1.2345, seed 0 and tolerance 1e-11 build_loop
\* converges: it returns a non-negative value, the parameter is within
\* tolerance of 1.2345, and the iteration cap is never reached.
IsC7Run ==
    /\ fn = [kind |-> "rising", t |-> Target12345]
    /\ seed0 = DyZero
    /\ prob.tolerance = Tol1e11

Converged ==
    /\ ~DyIsNeg(ret)
    /\ ~note
    /\ DyLeq(DyAbs(DySub(seed, Target12345)), Tol1e11)

\* "well under 200": no more than nine tenths of the cap
WellUnderCap == max - max \div 10

SearchesOf(l) == {k \in 1..Len(l) : l[k].op = "search"}

OutputsOf(l) == {k \in 1..Len(l) : l[k].op = "output"}

\* what has run so far is main's program up to the step that comes next
RanInOrder ==
    /\ Len(log) = mpc - 1
    /\ \A k \in 1..Len(log) :
          log[k].op = MainSteps[k].op /\ log[k].name = MainSteps[k].name

CapIsReported ==
    /\ (Returned /\ prob.loop = max) => (note /\ ret = DyInt(-1))
    /\ note => (Returned /\ DyIsNeg(ret))

\* what is left of main's run once the transforms are built
MainMeasure == (MainEnd - mpc) * (3 * max + 4) + LoopMeasure

\* the step main takes when a search has come back from the cap
GoesOnAfterCap ==
    (Returned /\ note)
        => /\ mpc' = mpc + 1
           /\ log' = Append(log, Done(MainSteps[mpc], TRUE))

\* C6: a search that hits the cap prints the NOTE and returns the negative
\* sentinel, and main goes on as after any other search: the step after a
\* capped search is the next step of the program, every step runs in order
\* whatever the searches returned, and every step brings the run nearer to
\* its end, where all seven searches and all nine outputs have been called.
C6_CapIsNotFatal ==
    /\ [](CapIsReported /\ RanInOrder /\ MainMeasure >= 0)
    /\ [][GoesOnAfterCap]_vars
    /\ [][gpc = "ready" => MainMeasure' < MainMeasure]_vars

C6_Witness ==
    /\ mpc = MainEnd
    /\ Cardinality(SearchesOf(log)) = 7
    /\ Cardinality(OutputsOf(log)) = 9
    /\ \A k \in SearchesOf(log) : log[k].capped
    /\ lastout.name = "icosa70_c.off"
    /\ lastout.opened

(***************************************************************************)
(* CLAIMS ON the region table (SpecTable)                                  *)
(***************************************************************************)
\* the comparisons of the geometry claims allow this many rounding steps
EpsUlps == 10

Close(a, b) == FLeq(FAbs(FSub(a, b)), Num(EpsUlps))

CloseVector(p, q) ==
    Close(p.i, q.i) /\ Close(p.j, q.j) /\ Close(p.k, q.k) /\ Close(p.l, q.l)

ThreeFactorPairs == {<<1, 2>>, <<2, 1>>, <<3, 4>>, <<4, 3>>}

FactorNames == {"mx", "m1", "mt1", "m2", "mt2"}

TableBuilt == gpc \in {"ref", "ready"}

\* C2: for all 36 pairs (i, j), a point carried by the table entry [i][j]
\* and then by the entry [j][i] is back where it started: the two entries
\* are inverses of each other.
C2_InversePairs ==
    (TableBuilt /\ probe.hops = 2 /\ probe.a = probe.a0)
        => CloseVector(probe.p, probe.p0)

C2_Witness ==
    /\ TableBuilt
    /\ probe.path = <<1, 2, 1>>
    /\ probe.p0 = Vector(Num(3600), Num(-4800), Num(8000), One)
    /\ CloseVector(probe.p, probe.p0)

\* C3 as stated: every entry of the table is the identity, one named
\* transform or a product of exactly two of them; no entry is a product of
\* three or more factors.
C3_AtMostTwoFactors ==
    TableBuilt =>
        \A i \in Regions, j \in Regions :
            /\ Len(amade[i][j]) <= 2
            /\ \A n \in DOMAIN amade[i][j] : amade[i][j][n] \in FactorNames

\* C3 amended: every entry is the identity (exactly on the diagonal), one
\* named transform, a product of two, or, for the pairs (1,2), (2,1), (3,4)
\* and (4,3) only, the product of three: a rotation, the mirror and the
\* inverse of that rotation; no entry has more than three factors, and the
\* stored matrix is the product of the factors in that order.
C3_AtMostThreeFactors ==
    TableBuilt =>
        \A i \in Regions, j \in Regions :
            /\ Len(amade[i][j]) <= 3
            /\ \A n \in DOMAIN amade[i][j] : amade[i][j][n] \in FactorNames
            /\ (Len(amade[i][j]) = 0) = (i = j)
            /\ (Len(amade[i][j]) = 3) = (<<i, j>> \in ThreeFactorPairs)
            /\ (Len(amade[i][j]) = 3 =>
                    \/ amade[i][j] = <<"m1", "mx", "mt1">>
                    \/ amade[i][j] = <<"m2", "mx", "mt2">>)
            /\ subface[i][j] = ABuild(amade[i][j], face)

C3_Witness ==
    /\ TableBuilt
    /\ amade[1][2] = <<"m1", "mx", "mt1">>
    /\ amade[0][1] = <<"mx", "mt1">>
    /\ subface[1][2] # subface[0][1]

(***************************************************************************)
(* CLAIMS ON the vertex generator (SpecGeom)                               *)
(***************************************************************************)
\* the local-frame image of the table entry [i][j] applied to the
\* global-frame image of the point p
ImageOf(p, i, j) ==
    AsPoint(Vec4Times(subface_exchange(i, j, Vec4Times(AsVector(p), face.tm),
                                       subface),
                      face.tmt))

SamePlace(p, q) == Close(p.x, q.x) /\ Close(p.y, q.y) /\ Close(p.z, q.z)

MutualImages(vtx) ==
    \A i \in Regions, j \in Regions :
        SamePlace(vtx.p[j], ImageOf(vtx.p[i], i, j))

\* C1: after any create_vertex_by_sc, create_vertex_by_strig or
\* create_vertex_from_vertex call for a vertex v and a region a, the six
\* stored instances of v are mutual images under the region table: instance
\* j is the local-frame image of the entry [i][j] applied to the
\* global-frame image of instance i, for every i and j.
C1_SixInstancesAreMutualImages ==
    call.fn # "none" => MutualImages(pgm_v[call.v])

\* the case C1 fails in: the w the call read was never written and held a NaN
C1_Witness ==
    /\ call.fn = "sc"
    /\ call.n = 1
    /\ \A i \in Regions : IsNaN(pgm_v[call.v].p[i].x)
    /\ ~MutualImages(pgm_v[call.v])

\* what the code does meet: the six instances are mutual images whenever
\* the point the call defined came out finite in all four components
C1_WhenDefinedPointIsFinite ==
    (call.fn # "none"
        /\ \A i \in Regions : IsFin(pgm_v[call.v].p[i].x)
                              /\ IsFin(pgm_v[call.v].p[i].w))
        => MutualImages(pgm_v[call.v])

(***************************************************************************)
(* CLAIMS ON sph_tri_bcC (SpecTri)                                         *)
(***************************************************************************)
Solved == tpc = "out"

\* C8: sph_tri_bcC takes the ambiguous two-candidate branch exactly when
\* b > c and C < 90 degrees; for every other input, b = c and C = 90 degrees
\* included, it takes the unambiguous branch: B from the clamped arcsine,
\* a from Napier's analogy, A from the law of cosines.
C8_BranchSelection ==
    Solved =>
        /\ (sph_tri.tri.branch = "ambiguous")
              = (sph_tri.deg[1] > sph_tri.deg[2] /\ sph_tri.deg[3] < 90)
        /\ (sph_tri.tri.branch = "unambiguous") =
              ~(sph_tri.deg[1] > sph_tri.deg[2] /\ sph_tri.deg[3] < 90)
        /\ (sph_tri.tri.branch = "unambiguous" =>
              /\ Len(sph_tri.tri.asin) = 1
              /\ FLeq(FAbs(sph_tri.tri.asin[1]), One)
              /\ sph_tri.tri.B = FAsin(sph_tri.tri.asin[1])
              /\ sph_tri.tri.a = NapierSide(sph_tri.tri.b, sph_tri.tri.c,
                                            sph_tri.tri.C, sph_tri.tri.B)
              /\ sph_tri.tri.A = CosineAngle(sph_tri.tri.a, sph_tri.tri.b,
                                             sph_tri.tri.c))

C8_Witness ==
    /\ Solved
    /\ sph_tri.deg = <<50, 50, 30>>
    /\ sph_tri.tri.branch = "unambiguous"
    /\ IsFin(sph_tri.tri.A)

\* C9: in the ambiguous branch the returned pair (A, B) is the primary
\* candidate when its A is not negative and the supplementary candidate
\* (A2, B2 = 180 degrees - B) exactly when the primary A is negative; side a
\* is derived from the selected pair.
C9_CandidateSelection ==
    (Solved /\ sph_tri.tri.branch = "ambiguous") =>
        /\ sph_tri.tri.cand.B2 = FSub(Deg(180), sph_tri.tri.cand.B)
        /\ (FLess(sph_tri.tri.cand.A, Zero) =>
              /\ sph_tri.tri.A = sph_tri.tri.cand.A2
              /\ sph_tri.tri.B = sph_tri.tri.cand.B2)
        /\ (~FLess(sph_tri.tri.cand.A, Zero) =>
              /\ sph_tri.tri.A = sph_tri.tri.cand.A
              /\ sph_tri.tri.B = sph_tri.tri.cand.B)
        /\ sph_tri.tri.a =
              FAsin(AmbiguousArgSide(sph_tri.tri.b, sph_tri.tri.A,
                                     sph_tri.tri.B))

C9_Witness ==
    /\ Solved
    /\ sph_tri.deg = <<150, 60, 60>>
    /\ sph_tri.tri.branch = "ambiguous"
    /\ FLess(sph_tri.tri.cand.A, Zero)
    /\ sph_tri.tri.A = sph_tri.tri.cand.A2
    /\ sph_tri.tri.A # sph_tri.tri.cand.A
    /\ FLess(Zero, sph_tri.tri.A)

\* C10: every asin() call of the solver is handed an argument inside
\* [-1, 1], in the ambiguous and in the unambiguous branch, so that no
\* domain error occurs for any b, c, C.
C10_AsinArgumentsClamped ==
    Solved =>
        \A n \in DOMAIN sph_tri.tri.asin :
            /\ FLeq(FNeg(One), sph_tri.tri.asin[n])
            /\ FLeq(sph_tri.tri.asin[n], One)

\* the case C10 fails in: asin(sin(C)*sin(b)/sin(c)) with the quotient above 1
C10_Witness ==
    /\ Solved
    /\ sph_tri.deg = <<90, 30, 60>>
    /\ sph_tri.tri.branch = "ambiguous"
    /\ FLess(One, sph_tri.tri.asin[1])
    /\ IsNaN(sph_tri.tri.B)
    /\ IsNaN(sph_tri.tri.a)

(***************************************************************************)
(* CLAIMS ON gut_cartesian_to_spherical (SpecConv)                         *)
(***************************************************************************)
Converted == conv.pc = "out"

ApproxZero(v) == FLeq(FAbs(v), ZERO)

Positive(v) == FLess(ZERO, v)

Negative(v) == FLess(v, FNeg(ZERO))

\* the converter went past its early return
AnglesComputed == Converted /\ ~ApproxZero(conv.s.radius)

AtanYX(p) == FAtan(FDiv(p.y, p.x))

HalfTurn == DTR(Whole(180))

\* the rows the case table shares with the code
SharedRows(p, az) ==
    /\ (ApproxZero(p.x) /\ ApproxZero(p.y)) => FEq(az, Zero)
    /\ (ApproxZero(p.x) /\ Positive(p.y)) => FEq(az, DTR(Whole(90)))
    /\ (ApproxZero(p.x) /\ Negative(p.y)) => FEq(az, DTR(Whole(-90)))
    /\ (Negative(p.x) /\ ApproxZero(p.y)) => FEq(az, HalfTurn)
    /\ (Negative(p.x) /\ Positive(p.y)) => FEq(az, FAdd(HalfTurn, AtanYX(p)))
    /\ (Negative(p.x) /\ Negative(p.y))
          => FEq(az, FAdd(FNeg(HalfTurn), AtanYX(p)))

\* the case table as stated: x > 0 gives atan(y/x) for every y
C11_AzimuthTableAsStated ==
    AnglesComputed =>
        /\ SharedRows(conv.p, conv.s.azimuth)
        /\ Positive(conv.p.x) => FEq(conv.s.azimuth, AtanYX(conv.p))

\* C11 (as the code behaves): the azimuth follows the case table, with
\* "approximately zero" meaning absolute value <= ZERO, except that for x > 0
\* and y approximately zero it is 0 and not atan(y/x); for x > 0 and any
\* other y it is atan(y/x).
C11_AzimuthCaseTable ==
    AnglesComputed =>
        /\ SharedRows(conv.p, conv.s.azimuth)
        /\ (Positive(conv.p.x) /\ ApproxZero(conv.p.y))
              => FEq(conv.s.azimuth, Zero)
        /\ (Positive(conv.p.x) /\ ~ApproxZero(conv.p.y))
              => FEq(conv.s.azimuth, AtanYX(conv.p))

\* a point of the third quadrant
C11_Witness ==
    /\ AnglesComputed
    /\ Negative(conv.p.x)
    /\ Negative(conv.p.y)
    /\ FLess(conv.s.azimuth, DTR(Whole(-90)))
    /\ FLess(FNeg(HalfTurn), conv.s.azimuth)

\* C12: when the radius is approximately zero the converter returns at
\* once and the inclination and the azimuth of *s are what they were before
\* the call.
C12_DegenerateRadiusLeavesAngles ==
    (Converted /\ ApproxZero(conv.s.radius))
        => /\ conv.s.azimuth = conv.s0.azimuth
           /\ conv.s.inclination = conv.s0.inclination

C12_Witness ==
    /\ Converted
    /\ ApproxZero(conv.s.radius)
    /\ conv.s0.azimuth = DTR(Whole(45))
    /\ conv.s.azimuth = DTR(Whole(45))
    /\ conv.s.inclination = DTR(Whole(60))

(***************************************************************************)
(* CLAIMS ON mtx_multiply_matrix (SpecMul)                                 *)
(***************************************************************************)
Multiplied == mm.pc = "out"

\* the entry of row r and column k of the product A*B
ProductEntry(a, b, r, k) ==
    FAdd(FAdd(FAdd(FMul(a[4 * r], b[k]), FMul(a[4 * r + 1], b[4 + k])),
              FMul(a[4 * r + 2], b[8 + k])),
         FMul(a[4 * r + 3], b[12 + k]))

\* C13: after mtx_multiply_matrix(a, b, c), c[4r+k] is the sum over j of
\* a[4r+j]*b[4j+k] for every row r and column k in 0..3.
C13_ProductOfAllEntries ==
    Multiplied =>
        \A r \in 0..3, k \in 0..3 :
            mm.c[4 * r + k] = ProductEntry(mm.a, mm.b, r, k)

\* what the code does meet: every entry but c[11], which is computed from
\* row 1 of a
C13_AllEntriesButC11 ==
    Multiplied =>
        /\ \A r \in 0..3, k \in 0..3 :
              4 * r + k # 11 => mm.c[4 * r + k] = ProductEntry(mm.a, mm.b, r, k)
        /\ mm.c[11] = ProductEntry(mm.a, mm.b, 1, 3)

(***************************************************************************)
(* CLAIMS ON main's start-up and on what the frequencies share (Spec)      *)
(***************************************************************************)
FaceBuilt == face.tm # UninitMatrix /\ face.tmt # UninitMatrix

RotationsBuilt ==
    /\ face.m0 # UninitMatrix /\ face.mt0 # UninitMatrix
    /\ face.m1 # UninitMatrix /\ face.mt1 # UninitMatrix
    /\ face.m2 # UninitMatrix /\ face.mt2 # UninitMatrix

TableStored == \A i \in Regions, j \in Regions : subface[i][j] # UninitMatrix

RefInitialised ==
    /\ IsFin(ref.A) /\ IsFin(ref.B)
    /\ IsFin(ref.a) /\ IsFin(ref.b) /\ IsFin(ref.c)

\* a configuration has run, or a search is calling its residual function
VertexGenerated ==
    \/ \E n \in DOMAIN vtag : vtag[n] # 0
    \/ \E k \in 1..Len(log) : log[k].op # "output"
    \/ blpc # "idle"

RefRead ==
    \/ \E k \in 1..Len(log) : ReadsRef(log[k].name)
    \/ (blpc # "idle" /\ ReadsRef(MainSteps[mpc].name))

\* C14: the face transforms, the three rotation pairs and the region table
\* are built in that order, all of them before the first vertex is
\* generated, and the reference triangle is initialised before any
\* configuration reads it.
C14_BuiltBeforeUse ==
    /\ RotationsBuilt => FaceBuilt
    /\ TableStored => RotationsBuilt
    /\ VertexGenerated => (FaceBuilt /\ RotationsBuilt /\ TableStored)
    /\ RefRead => RefInitialised

C14_Witness ==
    /\ Len(log) = 1
    /\ vtag[0] = 2
    /\ vtag[1] = 2
    /\ TableStored
    /\ RefInitialised

\* C15: once start-up has finished no step of main changes the face
\* transforms, the region table or the reference triangle.
C15_StartupValuesAreKept ==
    [][gpc = "ready" => (face' = face /\ subface' = subface /\ ref' = ref)]_vars

C15_Witness ==
    /\ mpc = MainEnd
    /\ FaceBuilt
    /\ RotationsBuilt
    /\ TableStored
    /\ RefInitialised
    /\ vtag[7] = 7

\* main is about to run the first step of a frequency
AtFrequencyStart ==
    /\ gpc = "ready"
    /\ blpc = "idle"
    /\ mpc < MainEnd
    /\ (mpc = 1 \/ Frequency[mpc] # Frequency[mpc - 1])

\* C16: at the start of each frequency's computation no entry of pgm->v
\* holds a value stored during an earlier frequency's computation.
C16_VerticesResetBetweenFrequencies ==
    AtFrequencyStart => \A n \in DOMAIN vtag : vtag[n] = 0

\* what the code does: an entry keeps the value of the last frequency that
\* stored into it
C16_VerticesAreKept ==
    [][\A n \in DOMAIN vtag : vtag[n] # 0 => vtag'[n] >= vtag[n]]_vars

(***************************************************************************)
(* CLAIMS ON the output functions (Spec)                                   *)
(***************************************************************************)
OpenFailed == lastout.name # "" /\ ~lastout.opened

\* C17: when fopen_s gives no stream the output function prints a
\* diagnostic before it returns.
C17_OpenFailureIsReported == OpenFailed => lastout.said # ""

\* main is about to call an output function
AtOutput == MainReady /\ MainSteps[mpc].op = "output"

\* C18: when fopen_s gives no stream only that output step is given up:
\* nothing is written for it, the output function leaves the vertices, the
\* transforms and the reference triangle as they were, and main goes on with
\* the step after it, so that every later output and frequency is run.
C18_OnlyTheOutputStepIsAbandoned ==
    /\ [](OpenFailed => lastout.lines = 0)
    /\ []RanInOrder
    /\ [][AtOutput => /\ mpc' = mpc + 1
                      /\ face' = face /\ subface' = subface /\ ref' = ref
                      /\ vtag' = vtag /\ pgm_v' = pgm_v]_vars

\* a whole run in which no output file could be opened
C18_Witness ==
    /\ mpc = MainEnd
    /\ unopened
    /\ OpenFailed
    /\ Cardinality(OutputsOf(log)) = 9
    /\ Cardinality(SearchesOf(log)) = 7

(***************************************************************************)
(* CLAIMS ON the two runs (SpecTwin)                                       *)
(***************************************************************************)
Printed == twin.pc = "printed"

\* C19: two runs that differ only in what the uninitialised PROGRAM held,
\* the never assigned w of its points included, print the same x, y and z
\* for every vertex.
C19_OutputIndependentOfGarbage == Printed => twin.out[1] = twin.out[2]

\* what the code does meet: the same output whenever the w that was read is
\* a finite number in both runs
C19_SameOutputForFiniteGarbage ==
    (Printed /\ IsFin(twin.g[1]) /\ IsFin(twin.g[2]))
        => twin.out[1] = twin.out[2]

(***************************************************************************)
(* CLAIMS ON sph_tri_bcC for b = 50, c = 40, C = 30 degrees (SpecTri)      *)
(***************************************************************************)
IsC20Run == sph_tri.deg = <<50, 40, 30>>

\* the A of the candidate the solver did not store
UnreturnedA ==
    IF sph_tri.tri.A = sph_tri.tri.cand.A
    THEN sph_tri.tri.cand.A2 ELSE sph_tri.tri.cand.A

\* the claim as stated: the returned A is not negative and the A of the
\* other candidate is negative
C20_OtherCandidateNegative ==
    (Solved /\ IsC20Run) =>
        /\ ~FLess(sph_tri.tri.A, Zero)
        /\ FLess(UnreturnedA, Zero)

\* C20 (as the code behaves): for b = 50, c = 40, C = 30 degrees the
\* ambiguous branch returns the primary candidate, whose A of about 130
\* degrees is not negative; the supplementary candidate it does not return
\* has an A of about 9 degrees, which is not negative either.
C20_PrimaryReturnedBothNonNegative ==
    (Solved /\ IsC20Run) =>
        /\ sph_tri.tri.branch = "ambiguous"
        /\ sph_tri.tri.A = sph_tri.tri.cand.A
        /\ sph_tri.tri.B = sph_tri.tri.cand.B
        /\ FLess(Deg(129), sph_tri.tri.A)
        /\ FLess(sph_tri.tri.A, Deg(131))
        /\ FLess(Deg(9), sph_tri.tri.cand.A2)
        /\ FLess(sph_tri.tri.cand.A2, Deg(10))

C20_Witness ==
    /\ Solved
    /\ IsC20Run
    /\ sph_tri.tri.branch = "ambiguous"
    /\ FLess(Zero, UnreturnedA)
    /\ UnreturnedA = sph_tri.tri.cand.A2

(***************************************************************************)
(* CLAIMS ON the update ladder of build_loop (SpecLoop)                    *)
(***************************************************************************)
\* the ladder of lines 789-840 has run once: the first residual is in
\* prob.lastdiff and the second call is due
FirstStepped == blpc = "call" /\ prob.loop = 1

\* the claim as stated: the first step goes up on a positive residual, as
\* the code has it, and the opposite way on a negative one
C21_FirstStepFollowsSign ==
    FirstStepped =>
        /\ DyIsPos(prob.lastdiff) => DyLess(seed0, seed)
        /\ DyIsNeg(prob.lastdiff) => DyLess(seed, seed0)

\* C21 (as the code behaves): on the first iteration, where prob.lastdiff
\* is 0, the parameter is stepped once by +DTR(0.5), the initial step size,
\* whatever the sign of the residual: a positive and a negative first
\* residual move it in the same direction.
C21_FirstStepIsUpward ==
    FirstStepped =>
        /\ seed = DyAdd(seed0, inc)
        /\ prob.delta = inc
        /\ DyLess(seed0, seed)

C21_Witness ==
    /\ FirstStepped
    /\ DyIsNeg(prob.lastdiff)
    /\ DyLess(seed0, seed)

\* one pass of the ladder: from the tests to the next call
StepTaken == blpc = "test" /\ blpc' = "call"

SameSign(d, l) ==
    (DyIsPos(d) /\ DyIsPos(l)) \/ (DyIsNeg(d) /\ DyIsNeg(l))

OppositeSign(d, l) ==
    (DyIsPos(d) /\ DyIsNeg(l)) \/ (DyIsNeg(d) /\ DyIsPos(l))

Shrank(d, l) == DyLess(DyAbs(d), DyAbs(l))

Grew(d, l) == DyLess(DyAbs(l), DyAbs(d))

\* the parameter moved the way the step size d points
MovedAlong(from, to, d) ==
    (DyIsPos(d) /\ DyLess(from, to)) \/ (DyIsNeg(d) /\ DyLess(to, from))

\* C22: when the residual has the opposite sign from the previous one, the
\* step size is halved and negated and the parameter is advanced by the new
\* step from its current value, which is the midpoint of the two parameters
\* evaluated last.
C22_OppositeSignStepsToMidpoint ==
    [][(StepTaken /\ OppositeSign(diff, prob.lastdiff)) =>
            /\ prob'.delta = DyNeg(DyHalf(prob.delta))
            /\ seed' = DyAdd(seed, prob'.delta)]_vars

\* what the code does on a change of sign: the last step is undone first,
\* and the new step is taken from there, away from the parameter just
\* evaluated by one and a half old steps
C22_OppositeSignStepsFromOldBase ==
    [][(StepTaken /\ OppositeSign(diff, prob.lastdiff)) =>
            /\ prob'.delta = DyNeg(DyHalf(prob.delta))
            /\ seed' = DyAdd(DySub(seed, prob.delta), prob'.delta)
            /\ seed' # DyAdd(seed, prob'.delta)]_vars

\* C23: when the residual has the sign of the previous one and a smaller
\* magnitude, the step size is left as it is and the parameter is advanced
\* by exactly that step size; every pass of the ladder moves the parameter
\* the way the step size it leaves points, so this is the direction of the
\* previous step.
C23_SameSignShrankKeepsStep ==
    /\ [][(StepTaken /\ SameSign(diff, prob.lastdiff)
                     /\ Shrank(diff, prob.lastdiff)) =>
              /\ prob'.delta = prob.delta
              /\ seed' = DyAdd(seed, prob.delta)]_vars
    /\ [][StepTaken => MovedAlong(seed, seed', prob'.delta)]_vars

\* a rising residual below its root: the second and third passes both saw
\* a negative residual that had shrunk
C23_Witness ==
    /\ blpc = "call"
    /\ prob.loop = 3
    /\ fn.kind = "rising"
    /\ DyIsNeg(prob.lastdiff)
    /\ prob.delta = inc
    /\ seed = DyAdd(seed0, DyInt(3))

\* C24: when the residual has the sign of the previous one and a larger
\* magnitude, the step size is negated with its magnitude unchanged and the
\* parameter is stepped in the new direction: the last step is undone and
\* one step is taken the other way.
C24_SameSignGrewReverses ==
    [][(StepTaken /\ SameSign(diff, prob.lastdiff)
                  /\ Grew(diff, prob.lastdiff)) =>
            /\ prob'.delta = DyNeg(prob.delta)
            /\ DyAbs(prob'.delta) = DyAbs(prob.delta)
            /\ seed' = DyAdd(DySub(seed, prob.delta), prob'.delta)
            /\ MovedAlong(seed, seed', prob'.delta)]_vars

\* a rising residual above its root: the first step went up, the residual
\* grew, and the second pass turned round
C24_Witness ==
    /\ blpc = "call"
    /\ prob.loop = 2
    /\ fn.kind = "rising"
    /\ DyIsPos(prob.lastdiff)
    /\ prob.delta = DyNeg(inc)
    /\ seed = DySub(seed0, inc)

(***************************************************************************)
(* CLAIMS ON the composition of the region table (SpecTable)               *)
(***************************************************************************)
\* the probe has been carried from region i to region j and on to region k
TwoHops == TableBuilt /\ probe.hops = 2

\* C25: for all i, j, k in 0..5, a point carried by the entry [i][j] and
\* then by the entry [j][k] arrives where the entry [i][k] carries it
\* directly: the image in region k does not depend on the route.
C25_RouteIndependent ==
    TwoHops =>
        CloseVector(probe.p,
                    subface_exchange(probe.a0, probe.a, probe.p0, subface))

C25_Witness ==
    /\ TwoHops
    /\ probe.path = <<1, 2, 4>>
    /\ probe.p0 = Vector(Num(3600), Num(-4800), Num(8000), One)
    /\ ~CloseVector(probe.p, probe.p0)
    /\ CloseVector(probe.p, subface_exchange(1, 4, probe.p0, subface))

(***************************************************************************)
(* CLAIMS ON what build_loop leaves behind (SpecLoop)                      *)
(***************************************************************************)
\* C27: build_loop never changes *seed after its last call of the residual
\* function: from the call to the return, by convergence or by the cap,
\* the residual in hand is the residual at the current *seed, and the
\* return itself neither moves *seed nor calls the function again; what
\* the function built, it built from the final *seed.
C27_SeedUntouchedAfterLastCall ==
    /\ [](blpc \in {"test", "done"} => diff = Residual(fn, seed))
    /\ [][blpc' = "done" => (seed' = seed /\ prob'.loop = prob.loop)]_vars

C27_Witness ==
    /\ Returned
    /\ ~note
    /\ fn.kind \in {"rising", "falling"}
    /\ prob.loop > 3
    /\ diff # DyZero
    /\ seed # seed0
    /\ diff = Residual(fn, seed)

C27_WitnessAtCap ==
    /\ Returned
    /\ note
    /\ prob.loop = max
    /\ seed # seed0
    /\ diff = Residual(fn, seed)

(***************************************************************************)
(* CLAIMS ON the vertices a frequency reads (SpecGeom, Spec)               *)
(***************************************************************************)
\* C26: what a configuration routine, a residual function or an output
\* function reads of a vertex was written before by a create_vertex_* call
\* of the same computation: once a vertex has been created, the point and
\* the inclination of each of its six instances (the members the callers
\* read: pgm->v[vs].sc[as].inclination and pgm->v[v].p[a]) hold what that
\* call stored, never what the memory held before.
C26_ReadsSeeWhatWasWritten ==
    \A vs \in Slots :
        Created(vs) =>
            \A as \in Regions :
                /\ pgm_v[vs].sc[as].inclination.c # "uninit"
                /\ pgm_v[vs].p[as].x.c # "uninit"

\* what does hold of the entries of pgm->v as wholes: every entry a step's
\* function reads was stored into earlier by a create_vertex_* call of
\* the same frequency, in an earlier step or earlier in the function
ReadsAreFresh(tags, acc, frequency) ==
    \A k \in DOMAIN acc :
        acc[k][1] = "r" =>
            \/ tags[acc[k][2]] = frequency
            \/ \E j \in 1..(k - 1) : acc[j] = <<"w", acc[k][2]>>

C26_EntriesStoredInSameFrequency ==
    (gpc = "ready" /\ mpc < MainEnd) =>
        /\ ReadsAreFresh(vtag, Accesses(MainSteps[mpc].name), Frequency[mpc])
        /\ MainSteps[mpc].op # "output" =>
               Writes(MainSteps[mpc].name) =
                   {n \in DOMAIN vtag :
                       \E k \in DOMAIN Accesses(MainSteps[mpc].name) :
                           Accesses(MainSteps[mpc].name)[k] = <<"w", n>>}

(***************************************************************************)
(* CLAIMS ON the two stages of frequency (7,0) (Spec)                      *)
(***************************************************************************)
FirstStageDone == \E k \in DOMAIN log : log[k].name = "classI_7v_a"

SecondStage == {"classI_7v_b1", "classI_7v_b2", "classI_7v_b3"}

FirstStageVertices == {0, 1, 2, 3, 4, 6, 7}

\* C28: the searches classI_7v_b1, classI_7v_b2 and classI_7v_b3 store into
\* vertex 5 only: from the end of the search on classI_7v_a to the end of
\* main, vertices 0-4, 6 and 7 are as classI_7v_a stored them, and each of
\* the three files is printed from them and from the vertex 5 of its own
\* search.
C28_SecondStageStoresOnlyVertex5 ==
    /\ [](FirstStageDone =>
            \A n \in FirstStageVertices : vfrom[n] = "classI_7v_a")
    /\ [](/\ lastout.name = "icosa70_a.off" => vfrom[5] = "classI_7v_b1"
          /\ lastout.name = "icosa70_b.off" => vfrom[5] = "classI_7v_b2"
          /\ lastout.name = "icosa70_c.off" => vfrom[5] = "classI_7v_b3")
    /\ [][(mpc < MainEnd /\ MainSteps[mpc].name \in SecondStage) =>
             \A n \in DOMAIN vfrom :
                 n # 5 => (vfrom'[n] = vfrom[n] /\ vtag'[n] = vtag[n])]_vars

C28_Witness ==
    /\ mpc = MainEnd
    /\ lastout.name = "icosa70_c.off"
    /\ vfrom[5] = "classI_7v_b3"
    /\ \A n \in FirstStageVertices : vfrom[n] = "classI_7v_a"
    /\ \E k \in DOMAIN log : log[k].name = "classI_7v_b1"
    /\ \E k \in DOMAIN log : log[k].name = "classI_7v_b2"

(***************************************************************************)
(* CLAIMS ON the matrices mtx_multiply_matrix is run on (SpecTable)        *)
(***************************************************************************)
\* fourth column (0, 0, 0, 1) and fourth row (0, 0, 0, 1)
FourthColumnAndRowAreUnit(m) ==
    /\ \A n \in {3, 7, 11, 12, 13, 14} : FEq(m[n], Zero)
    /\ FEq(m[15], One)

\* the product A*B, every entry from its own row and column
TrueProduct(a, b) == [n \in 0..15 |-> ProductEntry(a, b, n \div 4, n % 4)]

SameMatrix(a, b) == \A n \in 0..15 : FEq(a[n], b[n])

\* the true product of the factors of a table entry, in their order
TrueProductOf(r, fc) ==
    CASE Len(r) = 0 -> mtx_set_unity
      [] Len(r) = 1 -> Factor(r[1], fc)
      [] Len(r) = 2 -> TrueProduct(Factor(r[1], fc), Factor(r[2], fc))
      [] Len(r) = 3 ->
            TrueProduct(TrueProduct(Factor(r[1], fc), Factor(r[2], fc)),
                        Factor(r[3], fc))

\* build_a_transforms has just returned: every call of mtx_multiply_matrix
\* of the run has been made
BuildATransformsReturned == gpc = "ref"

\* C29: every matrix build_a_transforms passes to mtx_multiply_matrix (the
\* mirror, the rotations and their transposes, the temporary mm) and every
\* matrix it gets back has fourth column (0, 0, 0, 1) and fourth row
\* (0, 0, 0, 1); on them mtx_multiply_matrix returns the matrix product, so
\* every entry of the region table is the true product of its factors.
C29_TableEntriesAreTrueProducts ==
    BuildATransformsReturned =>
        /\ \A name \in FactorNames :
               FourthColumnAndRowAreUnit(Factor(name, face))
        /\ \A i \in Regions, j \in Regions :
               /\ FourthColumnAndRowAreUnit(subface[i][j])
               /\ SameMatrix(subface[i][j], TrueProductOf(amade[i][j], face))
               /\ Len(amade[i][j]) >= 2 =>
                      /\ FourthColumnAndRowAreUnit(
                             mtx_multiply_matrix(Factor(amade[i][j][1], face),
                                                 Factor(amade[i][j][2], face)))
                      /\ SameMatrix(
                             mtx_multiply_matrix(Factor(amade[i][j][1], face),
                                                 Factor(amade[i][j][2], face)),
                             TrueProduct(Factor(amade[i][j][1], face),
                                         Factor(amade[i][j][2], face)))

C29_Witness ==
    /\ BuildATransformsReturned
    /\ amade[1][2] = <<"m1", "mx", "mt1">>
    /\ SameMatrix(subface[1][2], TrueProductOf(amade[1][2], face))
    /\ ~SameMatrix(subface[1][2], mtx_set_unity)
    /\ amade[1][3] = <<"m1", "mt2">>
    /\ SameMatrix(subface[1][3], TrueProduct(face.m1, face.mt2))
    /\ ~SameMatrix(subface[1][3], face.m1)
    /\ FEq(subface[1][3][11], Zero)

====
